---------------------------- MODULE Spec2Model ----------------------------
(***************************************************************************)
(* Transaction-ingestion pipeline of portfolio_performance:                *)
(*   - the Broker Mapping Store and the transaction-type standardizer      *)
(*     (transaction_importer/utils.py, parsers.py, manage_mappings.py);    *)
(*   - the persistence adapter save_transactions (transaction_importer/    *)
(*     db.py);                                                             *)
(*   - the review window and its staging grid (review_window.py,           *)
(*     table_model.py, csv_import.py, account_selection.py).               *)
(* Text values on which the code does substring tests, lower() or strip()  *)
(* are sequences of one-character strings; enum members are written by     *)
(* their value strings; Decimal values are integers, with the not-a-number *)
(* Decimal kept as a value of its own.                                     *)
(***************************************************************************)
EXTENDS Integers, Sequences, FiniteSets, TLC

VARIABLES
    mappings,       \* TransactionTypeMapper.mappings: broker -> ordered bucket
    mapping_file,   \* content of the JSON file behind the store
    last_add,       \* arguments of the latest add_mapping, NoCall after another mutation
    last_save,      \* how the latest _save_mappings ended: "none", "ok" or "failed"
    std_call,       \* latest call of standardize_option_transaction_type and its outcome
    parse_call,     \* latest call of parse_date, parse_option_details or
                    \* import_transactions_from_csv: its arguments and its outcome
    n_mut,          \* number of store mutations so far
    db_accounts,    \* names of the rows of table accounts
    db_symbols,     \* rows of table symbols
    db_transactions,\* rows of table transactions, in insertion order
    save_call,      \* latest call of save_transactions: its batch, the storage before
                    \* it and how it ended
    transactions,   \* TransactionReviewWindow.transactions, the staged rows
    has_model,      \* the table view shows a TransactionTableModel over the staged rows
    save_button,    \* save_button.isEnabled()
    discard_button, \* discard_button.isEnabled()
    dialog,         \* the modal dialog load_csv is waiting in, and its widgets
    filepath,       \* TransactionReviewWindow.filepath
    column_mappings,\* TransactionReviewWindow.column_mappings
    account_name_override, \* TransactionReviewWindow.account_name_override
    message,        \* the message box the latest step of the window showed, if any
    last_edit,      \* latest setData call: row, column, value and return value
    last_commit,    \* latest save_to_database request: the rows staged and the storage
                    \* before it, how it ended, the storage and the rows staged after it
    import_start,   \* the current import: the storage when load_csv picked its file,
                    \* the accounts created since, whether a save was requested
    n_steps         \* number of loads, new accounts, edits, saves and discards so far

store_vars == << mappings, mapping_file, last_add, last_save, n_mut >>
db_vars == << db_accounts, db_symbols, db_transactions >>
window_vars == << transactions, has_model, save_button, discard_button, dialog, filepath,
                  column_mappings, account_name_override, message, last_edit,
                  last_commit, import_start, n_steps >>
call_vars == << std_call, parse_call >>
vars == << store_vars, call_vars, db_vars, save_call, window_vars >>

\* Python's None.  TLC compares only values of one kind, so None is written once per
\* kind of value it stands in for: a type code, a text, a Decimal.
None == "None"
NoneText == << "None" >>
NoneDec == [none |-> TRUE]
\* The marker of a call that has not happened.
NoCall == [called |-> FALSE]

(***************************************************************************)
(* Text helpers: str.lower, str.strip and the substring test `k in s`.     *)
(***************************************************************************)
LowerMap ==
    [A |-> "a", B |-> "b", C |-> "c", D |-> "d", E |-> "e", F |-> "f", G |-> "g",
     H |-> "h", I |-> "i", J |-> "j", K |-> "k", L |-> "l", M |-> "m", N |-> "n",
     O |-> "o", P |-> "p", Q |-> "q", R |-> "r", S |-> "s", T |-> "t", U |-> "u",
     V |-> "v", W |-> "w", X |-> "x", Y |-> "y", Z |-> "z"]

Lower(s) == [i \in 1..Len(s) |-> IF s[i] \in DOMAIN LowerMap THEN LowerMap[s[i]] ELSE s[i]]

RECURSIVE LStrip(_)
LStrip(s) == IF s # <<>> /\ Head(s) = " " THEN LStrip(Tail(s)) ELSE s

RECURSIVE RStrip(_)
RStrip(s) == IF s # <<>> /\ s[Len(s)] = " " THEN RStrip(SubSeq(s, 1, Len(s) - 1)) ELSE s

Strip(s) == RStrip(LStrip(s))

\* Python `k in s` on strings: k occurs in s as a contiguous run ("" occurs in all).
IsSubstr(k, s) ==
    \E i \in 0..(Len(s) - Len(k)) : SubSeq(s, i + 1, i + Len(k)) = k

Min(S) == CHOOSE x \in S : \A y \in S : x <= y

(***************************************************************************)
(* models.py: the TransactionType enum, by value.                          *)
(***************************************************************************)
TransactionTypeValues ==
    {"buy", "sell", "buy_to_open", "sell_to_open", "buy_to_close", "sell_to_close",
     "option_exercise", "option_assignment", "option_expiration", "dividend",
     "interest", "deposit", "withdrawal", "transfer_in", "transfer_out", "fee",
     "split", "other"}

(***************************************************************************)
(* Decimal: integers, and the quiet NaN that Decimal("NaN") builds.  An    *)
(* ordering comparison with NaN signals InvalidOperation, which the        *)
(* default context traps: the comparison raises.                           *)
(***************************************************************************)
Dec(n) == [dec |-> n]
NaN == [nan |-> TRUE]
InvalidOperation == "InvalidOperation"

(***************************************************************************)
(* utils.py: the built-in defaults of the store, in source order.          *)
(***************************************************************************)
Default_general ==
    << [k |-> <<"b", "u", "y">>, v |-> "buy"],
       [k |-> <<"s", "e", "l", "l">>, v |-> "sell"],
       [k |-> <<"d", "i", "v", "i", "d", "e", "n", "d">>, v |-> "dividend"],
       [k |-> <<"i", "n", "t", "e", "r", "e", "s", "t">>, v |-> "interest"],
       [k |-> <<"d", "e", "p", "o", "s", "i", "t">>, v |-> "deposit"],
       [k |-> <<"w", "i", "t", "h", "d", "r", "a", "w", "a", "l">>, v |-> "withdrawal"],
       [k |-> <<"f", "e", "e">>, v |-> "fee"],
       [k |-> <<"s", "p", "l", "i", "t">>, v |-> "split"],
       [k |-> <<"t", "r", "a", "n", "s", "f", "e", "r">>, v |-> "transfer_in"],
       [k |-> <<"j", "o", "u", "r", "n", "a", "l">>, v |-> "transfer_in"],
       [k |-> <<"t", "r", "a", "n", "s", "f", "e", "r", " ", "s", "h", "a", "r", "e", "s">>, v |-> "transfer_in"],
       [k |-> <<"j", "o", "u", "r", "n", "a", "l", " ", "s", "h", "a", "r", "e", "s">>, v |-> "transfer_in"],
       [k |-> <<"t", "r", "a", "n", "s", "f", "e", "r", " ", "s", "e", "c", "u", "r", "i", "t", "i", "e", "s">>, v |-> "transfer_in"],
       [k |-> <<"t", "r", "a", "n", "s", "f", "e", "r", " ", "f", "u", "n", "d", "s">>, v |-> "transfer_in"],
       [k |-> <<"s", "e", "c", "u", "r", "i", "t", "i", "e", "s", " ", "t", "r", "a", "n", "s", "f", "e", "r", "r", "e", "d">>, v |-> "transfer_in"] >>

Default_fidelity ==
    << [k |-> <<"b", "o", "u", "g", "h", "t">>, v |-> "buy"],
       [k |-> <<"s", "o", "l", "d">>, v |-> "sell"],
       [k |-> <<"c", "a", "s", "h", " ", "c", "o", "n", "t", "r", "i", "b", "u", "t", "i", "o", "n">>, v |-> "deposit"],
       [k |-> <<"d", "i", "v", "i", "d", "e", "n", "d", " ", "r", "e", "c", "e", "i", "v", "e", "d">>, v |-> "dividend"],
       [k |-> <<"r", "e", "i", "n", "v", "e", "s", "t", "m", "e", "n", "t">>, v |-> "buy"],
       [k |-> <<"t", "r", "a", "n", "s", "f", "e", "r", "r", "e", "d", " ", "i", "n">>, v |-> "transfer_in"],
       [k |-> <<"t", "r", "a", "n", "s", "f", "e", "r", "r", "e", "d", " ", "o", "u", "t">>, v |-> "transfer_out"],
       [k |-> <<"j", "o", "u", "r", "n", "a", "l", "e", "d">>, v |-> "transfer_in"] >>

Default_schwab ==
    << [k |-> <<"b", "o", "u", "g", "h", "t">>, v |-> "buy"],
       [k |-> <<"s", "o", "l", "d">>, v |-> "sell"],
       [k |-> <<"q", "u", "a", "l", "i", "f", "i", "e", "d", " ", "d", "i", "v", "i", "d", "e", "n", "d">>, v |-> "dividend"],
       [k |-> <<"n", "o", "n", "-", "q", "u", "a", "l", "i", "f", "i", "e", "d", " ", "d", "i", "v", "i", "d", "e", "n", "d">>, v |-> "dividend"],
       [k |-> <<"b", "a", "n", "k", " ", "i", "n", "t", "e", "r", "e", "s", "t">>, v |-> "interest"],
       [k |-> <<"s", "e", "r", "v", "i", "c", "e", " ", "f", "e", "e">>, v |-> "fee"],
       [k |-> <<"j", "o", "u", "r", "n", "a", "l">>, v |-> "transfer_in"],
       [k |-> <<"M", "o", "n", "e", "y", "L", "i", "n", "k", " ", "T", "r", "a", "n", "s", "f", "e", "r">>, v |-> "transfer_in"] >>

Default_robinhood ==
    << [k |-> <<"m", "a", "r", "k", "e", "t", " ", "b", "u", "y">>, v |-> "buy"],
       [k |-> <<"m", "a", "r", "k", "e", "t", " ", "s", "e", "l", "l">>, v |-> "sell"],
       [k |-> <<"l", "i", "m", "i", "t", " ", "b", "u", "y">>, v |-> "buy"],
       [k |-> <<"l", "i", "m", "i", "t", " ", "s", "e", "l", "l">>, v |-> "sell"],
       [k |-> <<"d", "i", "v", "i", "d", "e", "n", "d">>, v |-> "dividend"],
       [k |-> <<"d", "e", "p", "o", "s", "i", "t">>, v |-> "deposit"],
       [k |-> <<"w", "i", "t", "h", "d", "r", "a", "w", "a", "l">>, v |-> "withdrawal"],
       [k |-> <<"t", "r", "a", "n", "s", "f", "e", "r">>, v |-> "transfer_in"] >>

Default_ibkr ==
    << [k |-> <<"b", "u", "y">>, v |-> "buy"],
       [k |-> <<"s", "e", "l", "l">>, v |-> "sell"],
       [k |-> <<"d", "i", "v", "i", "d", "e", "n", "d">>, v |-> "dividend"],
       [k |-> <<"d", "e", "p", "o", "s", "i", "t">>, v |-> "deposit"],
       [k |-> <<"w", "i", "t", "h", "d", "r", "a", "w", "a", "l">>, v |-> "withdrawal"],
       [k |-> <<"t", "r", "a", "n", "s", "f", "e", "r">>, v |-> "transfer_in"],
       [k |-> <<"c", "a", "s", "h", " ", "t", "r", "a", "n", "s", "f", "e", "r">>, v |-> "transfer_in"] >>

Default_tdameritrade ==
    << [k |-> <<"b", "o", "u", "g", "h", "t">>, v |-> "buy"],
       [k |-> <<"s", "o", "l", "d">>, v |-> "sell"],
       [k |-> <<"r", "e", "i", "n", "v", "e", "s", "t", "m", "e", "n", "t">>, v |-> "buy"],
       [k |-> <<"d", "i", "v", "i", "d", "e", "n", "d">>, v |-> "dividend"],
       [k |-> <<"t", "r", "a", "n", "s", "f", "e", "r">>, v |-> "transfer_in"] >>

option_action_mapping ==
    << [k |-> <<"b", "u", "y", " ", "t", "o", " ", "o", "p", "e", "n">>, v |-> "buy_to_open"],
       [k |-> <<"b", "t", "o">>, v |-> "buy_to_open"],
       [k |-> <<"o", "p", "e", "n", " ", "b", "u", "y">>, v |-> "buy_to_open"],
       [k |-> <<"o", "p", "e", "n", "i", "n", "g", " ", "p", "u", "r", "c", "h", "a", "s", "e">>, v |-> "buy_to_open"],
       [k |-> <<"s", "e", "l", "l", " ", "t", "o", " ", "o", "p", "e", "n">>, v |-> "sell_to_open"],
       [k |-> <<"s", "t", "o">>, v |-> "sell_to_open"],
       [k |-> <<"o", "p", "e", "n", " ", "s", "e", "l", "l">>, v |-> "sell_to_open"],
       [k |-> <<"o", "p", "e", "n", "i", "n", "g", " ", "s", "a", "l", "e">>, v |-> "sell_to_open"],
       [k |-> <<"o", "p", "t", "i", "o", "n", " ", "w", "r", "i", "t", "i", "n", "g">>, v |-> "sell_to_open"],
       [k |-> <<"w", "r", "i", "t", "e">>, v |-> "sell_to_open"],
       [k |-> <<"b", "u", "y", " ", "t", "o", " ", "c", "l", "o", "s", "e">>, v |-> "buy_to_close"],
       [k |-> <<"b", "t", "c">>, v |-> "buy_to_close"],
       [k |-> <<"c", "l", "o", "s", "e", " ", "b", "u", "y">>, v |-> "buy_to_close"],
       [k |-> <<"c", "l", "o", "s", "i", "n", "g", " ", "p", "u", "r", "c", "h", "a", "s", "e">>, v |-> "buy_to_close"],
       [k |-> <<"s", "e", "l", "l", " ", "t", "o", " ", "c", "l", "o", "s", "e">>, v |-> "sell_to_close"],
       [k |-> <<"s", "t", "c">>, v |-> "sell_to_close"],
       [k |-> <<"c", "l", "o", "s", "e", " ", "s", "e", "l", "l">>, v |-> "sell_to_close"],
       [k |-> <<"c", "l", "o", "s", "i", "n", "g", " ", "s", "a", "l", "e">>, v |-> "sell_to_close"],
       [k |-> <<"e", "x", "e", "r", "c", "i", "s", "e">>, v |-> "option_exercise"],
       [k |-> <<"e", "x", "e", "r", "c", "i", "s", "e", "d">>, v |-> "option_exercise"],
       [k |-> <<"a", "s", "s", "i", "g", "n", "m", "e", "n", "t">>, v |-> "option_assignment"],
       [k |-> <<"a", "s", "s", "i", "g", "n", "e", "d">>, v |-> "option_assignment"],
       [k |-> <<"e", "x", "p", "i", "r", "a", "t", "i", "o", "n">>, v |-> "option_expiration"],
       [k |-> <<"e", "x", "p", "i", "r", "e", "d">>, v |-> "option_expiration"],
       [k |-> <<"w", "o", "r", "t", "h", "l", "e", "s", "s">>, v |-> "option_expiration"] >>

s_general == <<"g", "e", "n", "e", "r", "a", "l">>
s_fidelity == <<"f", "i", "d", "e", "l", "i", "t", "y">>
s_schwab == <<"s", "c", "h", "w", "a", "b">>
s_robinhood == <<"r", "o", "b", "i", "n", "h", "o", "o", "d">>
s_ibkr == <<"i", "b", "k", "r">>
s_tdameritrade == <<"t", "d", "a", "m", "e", "r", "i", "t", "r", "a", "d", "e">>
s_buy == <<"b", "u", "y">>
s_purchase == <<"p", "u", "r", "c", "h", "a", "s", "e">>
s_sell == <<"s", "e", "l", "l">>
s_dividend == <<"d", "i", "v", "i", "d", "e", "n", "d">>
s_interest == <<"i", "n", "t", "e", "r", "e", "s", "t">>
s_deposit == <<"d", "e", "p", "o", "s", "i", "t">>
s_withdrawal == <<"w", "i", "t", "h", "d", "r", "a", "w", "a", "l">>
s_transfer == <<"t", "r", "a", "n", "s", "f", "e", "r">>
s_journal == <<"j", "o", "u", "r", "n", "a", "l">>
s_fee == <<"f", "e", "e">>
s_split == <<"s", "p", "l", "i", "t">>

s_Buy_to_Open == <<"B", "u", "y", " ", "t", "o", " ", "O", "p", "e", "n">>
s_STC == <<"S", "T", "C">>
s_unknown_garbage == <<"u", "n", "k", "n", "o", "w", "n", " ", "g", "a", "r", "b", "a", "g", "e">>
s_Transferred_Out == <<"T", "r", "a", "n", "s", "f", "e", "r", "r", "e", "d", " ", "O", "u", "t">>
s_bought_to_open == <<"b", "o", "u", "g", "h", "t", " ", "t", "o", " ", "o", "p", "e", "n">>
s_Schwab == <<"S", "c", "h", "w", "a", "b">>
s_acme == <<"a", "c", "m", "e">>
s__Wire_ == <<" ", "W", "i", "r", "e", " ">>
s_Journal == <<"J", "o", "u", "r", "n", "a", "l">>
s_nan == <<"n", "a", "n">>

_init_default_mappings ==
    (s_general :> Default_general) @@ (s_fidelity :> Default_fidelity) @@
    (s_schwab :> Default_schwab) @@ (s_robinhood :> Default_robinhood) @@
    (s_ibkr :> Default_ibkr) @@ (s_tdameritrade :> Default_tdameritrade)

(***************************************************************************)
(* utils.py: TransactionTypeMapper.get_transaction_type.                   *)
(***************************************************************************)
\* The loop `for key, value in bucket.items(): if key in action_lower: ... break`.
FirstMatch(bucket, action_lower) ==
    LET hits == {i \in 1..Len(bucket) : IsSubstr(bucket[i].k, action_lower)}
    IN  IF hits = {} THEN None ELSE bucket[Min(hits)].v

\* A lookup that asks the general bucket first and the broker bucket after it.
LookupResult_GeneralFirst(m, action_lower, broker) ==
    LET r1 == IF s_general \in DOMAIN m THEN FirstMatch(m[s_general], action_lower)
              ELSE None
    IN  IF r1 = None /\ broker # NoneText /\ broker # <<>> /\ Lower(broker) \in DOMAIN m
        THEN FirstMatch(m[Lower(broker)], action_lower)
        ELSE r1

\* Lines 174-186: the broker bucket first, the general bucket when it gave nothing.
LookupResult(m, action_lower, broker) ==
    LET r1 == IF broker # NoneText /\ broker # <<>> /\ Lower(broker) \in DOMAIN m
              THEN FirstMatch(m[Lower(broker)], action_lower)
              ELSE None
    IN  IF r1 = None /\ s_general \in DOMAIN m
        THEN FirstMatch(m[s_general], action_lower)
        ELSE r1

\* A get_transaction_type that returns the direction the matching entry names.
TransferDirection_AsStored(result, quantity) == result

\* Lines 188-195: the direction of a transfer follows the sign of a known quantity.
TransferDirection(result, quantity) ==
    IF result \in {"transfer_in", "transfer_out"} /\ quantity # NoneDec
    THEN IF quantity = NaN THEN InvalidOperation
         ELSE IF quantity.dec < 0 THEN "transfer_out" ELSE "transfer_in"
    ELSE result

\* Lines 197-205: TransactionType(result), None when the value names no member.
ToTransactionType(result) ==
    IF result = InvalidOperation THEN InvalidOperation
    ELSE IF result # None /\ result \in TransactionTypeValues THEN result
    ELSE None

get_transaction_type(m, action_text, broker, quantity) ==
    ToTransactionType(
        TransferDirection(LookupResult(m, Lower(action_text), broker), quantity))

(***************************************************************************)
(* parsers.py: standardize_option_transaction_type.                        *)
(***************************************************************************)
\* Lines 126-132: generic buy/sell wording on a known option transaction.
OptionGeneric(action, is_option) ==
    IF is_option /\ (IsSubstr(s_buy, action) \/ IsSubstr(s_purchase, action))
    THEN "buy_to_open"
    ELSE IF is_option /\ IsSubstr(s_sell, action) THEN "sell_to_close"
    ELSE None

\* Lines 135-157: the generic table, ending in OTHER.
GenericFallback(action, quantity) ==
    IF IsSubstr(s_buy, action) THEN "buy"
    ELSE IF IsSubstr(s_sell, action) THEN "sell"
    ELSE IF IsSubstr(s_dividend, action) THEN "dividend"
    ELSE IF IsSubstr(s_interest, action) THEN "interest"
    ELSE IF IsSubstr(s_deposit, action) THEN "deposit"
    ELSE IF IsSubstr(s_withdrawal, action) THEN "withdrawal"
    ELSE IF IsSubstr(s_transfer, action) \/ IsSubstr(s_journal, action)
         THEN IF quantity # NoneDec
              THEN IF quantity = NaN THEN InvalidOperation
                   ELSE IF quantity.dec < 0 THEN "transfer_out" ELSE "transfer_in"
              ELSE "transfer_in"
    ELSE IF IsSubstr(s_fee, action) THEN "fee"
    ELSE IF IsSubstr(s_split, action) THEN "split"
    ELSE "other"

\* Lines 77-157: what runs when the mapper gave no type.
HardcodedFallback(action, is_option, quantity) ==
    LET direct == FirstMatch(option_action_mapping, action)
        generic == OptionGeneric(action, is_option)
    IN  IF direct # None THEN direct
        ELSE IF generic # None THEN generic
        ELSE GenericFallback(action, quantity)

\* The outcome is a TransactionType value, or InvalidOperation when the call raises.
standardize_option_transaction_type(m, action_str, is_option, quantity, broker) ==
    LET action == Strip(Lower(action_str))
        mapped_type == get_transaction_type(m, action, broker, quantity)
    IN  IF mapped_type = InvalidOperation THEN InvalidOperation
        ELSE IF mapped_type # None THEN mapped_type
        ELSE HardcodedFallback(action, is_option, quantity)

(***************************************************************************)
(* utils.py: the store's mutations and its persistence.                    *)
(***************************************************************************)
KeyIndex(bucket, key) == {i \in 1..Len(bucket) : bucket[i].k = key}

\* dict assignment bucket[key] = value: in place for a known key, else at the end.
BucketSet(bucket, key, value) ==
    IF KeyIndex(bucket, key) # {}
    THEN [bucket EXCEPT ![Min(KeyIndex(bucket, key))].v = value]
    ELSE Append(bucket, [k |-> key, v |-> value])

\* `del bucket[key]` for every key of `keys`.
BucketDelKeys(bucket, keys) ==
    LET F[n \in 0..Len(bucket)] ==
            IF n = 0 THEN <<>>
            ELSE IF bucket[n].k \in keys THEN F[n - 1] ELSE Append(F[n - 1], bucket[n])
    IN  F[Len(bucket)]

\* An add_mapping that stores the action text as given, not lowercased.
add_mapping_AsGiven(m, broker, action_text, transaction_type) ==
    LET m1 == IF broker \in DOMAIN m THEN m ELSE m @@ (broker :> <<>>)
    IN  [m1 EXCEPT ![broker] = BucketSet(m1[broker], action_text, transaction_type)]

\* Lines 147-154 of add_mapping, before the save.
add_mapping(m, broker, action_text, transaction_type) ==
    LET m1 == IF broker \in DOMAIN m THEN m ELSE m @@ (broker :> <<>>)
    IN  [m1 EXCEPT ![broker] = BucketSet(m1[broker], Lower(action_text), transaction_type)]

\* The file behind the store: absent, unreadable, or holding a dumped store.
Missing == [state |-> "missing"]
Corrupt == [state |-> "corrupt"]
FileOf(m) == [state |-> "json", content |-> m]
IoOutcomes == {"ok", "open_fails", "write_fails"}

\* Lines 55-62 of _save_mappings: the whole store is dumped; a failure of open() or
\* of the write is logged and swallowed, leaving the old file or a partial one.
_save_mappings(m, old_file, io) ==
    IF io = "ok" THEN FileOf(m)
    ELSE IF io = "open_fails" THEN old_file
    ELSE Corrupt

\* Lines 38-53 of _load_mappings, run once by the constructor: the resulting
\* << mappings, file >> for a file that is missing, unreadable or holds a store.
_load_mappings(file0, io) ==
    IF file0 = Missing
    THEN << _init_default_mappings, _save_mappings(_init_default_mappings, file0, io) >>
    ELSE IF file0 = Corrupt THEN << _init_default_mappings, file0 >>
    ELSE << file0.content, file0 >>

SaveOutcome(io) == IF io = "ok" THEN "ok" ELSE "failed"

(***************************************************************************)
(* Staged rows.  A row is the dict the row parser builds and the grid      *)
(* edits; a key the dict does not hold has the value Absent of its kind,   *)
(* and dict.get turns Absent into None.  A row that has no 'errors' key    *)
(* reads like a row whose error list is empty, so the list is always kept. *)
(***************************************************************************)
Absent == [absent |-> TRUE]
AbsentText == << "Absent" >>
AbsentCode == "Absent"

Get(v) == IF v = Absent THEN NoneDec ELSE v
GetText(s) == IF s = AbsentText THEN NoneText ELSE s
GetCode(c) == IF c = AbsentCode THEN None ELSE c

\* An entry of a row's error or warning list: the message and the value the code
\* formats into it.
Err(msg, arg) == [msg |-> msg, arg |-> arg]

\* An enum member and a str where the code tells them apart by isinstance.
Enum(code) == [enum |-> code]
Str(s) == [str |-> s]
\* datetime.date
Date(y, m, d) == [y |-> y, m |-> m, d |-> d]

\* Python truth of a text, and of a Decimal, date, enum member or str value.
TruthyText(s) == s \notin {AbsentText, NoneText, <<>>}
TruthyValue(v) == v \notin {Absent, NoneDec, Dec(0), Str(<<>>)}

(***************************************************************************)
(* Decimal(text).  The numerals of the model are integers: an optional     *)
(* sign and digits; "nan" in any case gives the NaN; any other text of the *)
(* model raises InvalidOperation, written NotADecimal.                     *)
(***************************************************************************)
NotADecimal == [invalid |-> TRUE]
DigitChars == << "0", "1", "2", "3", "4", "5", "6", "7", "8", "9" >>
IsDigit(c) == \E d \in 1..10 : DigitChars[d] = c
DigitValue(c) == (CHOOSE d \in 1..10 : DigitChars[d] = c) - 1
IsDigits(s) == s # <<>> /\ \A i \in 1..Len(s) : IsDigit(s[i])

RECURSIVE NumeralValue(_)
NumeralValue(s) ==
    IF s = <<>> THEN 0
    ELSE 10 * NumeralValue(SubSeq(s, 1, Len(s) - 1)) + DigitValue(s[Len(s)])

\* str.replace(c, '') for every character c of chars.
Without(s, chars) == SelectSeq(s, LAMBDA c : c \notin chars)

DecimalOf(text) ==
    LET s == Strip(text)
        signed == s # <<>> /\ s[1] \in {"-", "+"}
        body == IF signed THEN Tail(s) ELSE s
    IN  IF IsDigits(body)
        THEN Dec(IF signed /\ s[1] = "-" THEN 0 - NumeralValue(body) ELSE NumeralValue(body))
        ELSE IF Lower(body) = << "n", "a", "n" >> THEN NaN
        ELSE NotADecimal

InstrumentTypeValues == {"stock", "etf", "option", "cash", "other"}
OptionTypeValues == {"call", "put"}
s_call == << "c", "a", "l", "l" >>
s_put == << "p", "u", "t" >>

(***************************************************************************)
(* db.py get_or_create_symbol.  The session sees the stored symbols and    *)
(* the symbols flushed earlier in the same call.  The outcomes are a set:  *)
(* query.first() has no ORDER BY, so any matching symbol may come back.    *)
(***************************************************************************)
\* Lines 26-35: a str is converted, CALL when it names no option type or is unset.
OptionTypeOf(option_type) ==
    LET converted ==
            IF "str" \in DOMAIN option_type
            THEN IF Lower(option_type.str) = s_put THEN Enum("put") ELSE Enum("call")
            ELSE option_type
    IN  IF TruthyValue(converted) THEN converted ELSE Enum("call")

\* Lines 38-42: a str strike is converted, the '$' removed.
StrikeOf(strike_price) ==
    IF "str" \in DOMAIN strike_price
    THEN DecimalOf(Without(strike_price.str, {"$"}))
    ELSE strike_price

\* Lines 45-61: the filters of the query.
SymbolMatches(sym, ticker, instrument_type, option_type, expiration_date, strike_price) ==
    /\ sym.ticker = ticker
    /\ sym.instrument_type = instrument_type
    /\ instrument_type = "option" =>
          /\ sym.option_type = option_type
          /\ TruthyValue(expiration_date) => sym.expiration_date = expiration_date
          /\ TruthyValue(strike_price) => sym.strike_price = strike_price

\* models.py Symbol: what the table accepts at flush.
SymbolInsertable(sym) ==
    /\ sym.instrument_type \in InstrumentTypeValues
    /\ sym.option_type = NoneDec \/ "enum" \in DOMAIN sym.option_type
    /\ "str" \notin DOMAIN sym.strike_price

\* models.py Transaction: the NOT NULL columns the caller supplies.
TransactionInsertable(tx) ==
    /\ tx.transaction_type \in TransactionTypeValues
    /\ tx.transaction_date # NoneDec
    /\ tx.amount # NoneDec

\* pending: the Transaction objects added to the session and not yet flushed.
get_or_create_symbol(symbols, pending, ticker, instrument_type, option_type, expiration_date, strike_price) ==
    LET is_option == instrument_type = "option"
        otype == IF is_option THEN OptionTypeOf(option_type) ELSE option_type
        strike == IF is_option THEN StrikeOf(strike_price) ELSE strike_price
        found == {sym \in symbols :
                    SymbolMatches(sym, ticker, instrument_type, otype,
                                  expiration_date, strike)}
        created == [ticker |-> ticker, instrument_type |-> instrument_type,
                    option_type |-> otype, expiration_date |-> expiration_date,
                    strike_price |-> strike]
    IN  IF is_option /\ (~TruthyText(ticker) \/ strike = NotADecimal)
        THEN {[kind |-> "ValueError"]}
        ELSE IF found # {}
        THEN {[kind |-> "ok", symbol |-> sym, symbols |-> symbols] : sym \in found}
        ELSE IF SymbolInsertable(created) /\ \A i \in 1..Len(pending) :
                                                TransactionInsertable(pending[i])
        THEN {[kind |-> "ok", symbol |-> created, symbols |-> symbols \cup {created}]}
        ELSE {[kind |-> "IntegrityError"]}

(***************************************************************************)
(* db.py save_transactions.                                                *)
(***************************************************************************)
\* Line 86: a row with errors is skipped.
SkipRow_Never(transaction) == FALSE
SkipRow(transaction) == transaction.errors # <<>>

\* Lines 98-102: the instrument type handed to get_or_create_symbol.
SymbolInstrumentType(transaction) ==
    IF \/ TruthyValue(transaction.option_type)
       \/ TruthyValue(transaction.expiration_date)
       \/ TruthyValue(transaction.strike_price)
    THEN "option"
    ELSE IF transaction.instrument_type = AbsentCode THEN "stock"
    ELSE transaction.instrument_type

\* Lines 121-131: the Transaction built from a row; the symbol is None for a row
\* without one.
NewTransaction(transaction, symbol) ==
    [account |-> transaction.account_name,
     symbol |-> symbol,
     transaction_type |-> transaction.transaction_type,
     transaction_date |-> transaction.transaction_date,
     quantity |-> Get(transaction.quantity),
     price |-> Get(transaction.price),
     amount |-> transaction.amount,
     fees |-> IF TruthyValue(transaction.fees) THEN transaction.fees ELSE Dec(0),
     notes |-> GetText(transaction.notes)]

\* Lines 124, 125, 128: transaction['...'] raises KeyError for a key not held.
HasTransactionKeys(transaction) ==
    /\ transaction.transaction_type # AbsentCode
    /\ transaction.transaction_date # Absent
    /\ transaction.amount # Absent

\* Lines 84-137: the loop from row i on, in a session holding `symbols` and the
\* added transactions `pending`.  The result is the set of ways the loop can end:
\* raised, or done with what the session then holds.
RECURSIVE SaveLoop(_, _, _, _, _)
SaveLoop(rows, i, accounts, symbols, pending) ==
    IF i > Len(rows)
    THEN {[raised |-> FALSE, symbols |-> symbols, pending |-> pending]}
    ELSE LET transaction == rows[i]
             raise == {[raised |-> TRUE, symbols |-> symbols, pending |-> pending]}
         IN  IF SkipRow(transaction)
             THEN SaveLoop(rows, i + 1, accounts, symbols, pending)
             ELSE IF transaction.account_name \notin accounts
             THEN raise
             ELSE IF TruthyText(transaction.symbol)
             THEN UNION {
                    IF got.kind = "ValueError"
                    THEN SaveLoop(rows, i + 1, accounts, symbols, pending)
                    ELSE IF got.kind = "ok" /\ HasTransactionKeys(transaction)
                    THEN SaveLoop(rows, i + 1, accounts, got.symbols,
                            Append(pending, NewTransaction(transaction, got.symbol)))
                    ELSE [raised : {TRUE},
                          symbols : {IF got.kind = "ok" THEN got.symbols ELSE symbols},
                          pending : {pending}]
                    : got \in get_or_create_symbol(symbols, pending,
                                  transaction.symbol, SymbolInstrumentType(transaction),
                                  Get(transaction.option_type),
                                  Get(transaction.expiration_date),
                                  Get(transaction.strike_price)) }
             ELSE IF HasTransactionKeys(transaction)
             THEN SaveLoop(rows, i + 1, accounts, symbols,
                      Append(pending, NewTransaction(transaction, NoneDec)))
             ELSE raise

\* Lines 143-146: db.rollback() drops what the session flushed and added.
rollback_KeepFlushed(db, session) == [db EXCEPT !.symbols = session.symbols]
rollback(db, session) == db

\* Line 140: db.commit() writes the session; it fails when the database refuses a
\* row or, commit_ok being FALSE, for a cause outside the program.
commit(db, session) ==
    [accounts |-> db.accounts, symbols |-> session.symbols,
     transactions |-> db.transactions \o session.pending]

\* The set of ways save_transactions(rows) can end on storage db.
save_transactions(rows, db, commit_ok) ==
    { IF \/ session.raised
         \/ ~commit_ok
         \/ \E i \in 1..Len(session.pending) : ~TransactionInsertable(session.pending[i])
      THEN [ret |-> "raised", db |-> rollback(db, session)]
      ELSE [ret |-> "True", db |-> commit(db, session)]
      : session \in SaveLoop(rows, 1, db.accounts, db.symbols, <<>>) }

\* The storage as one value.
Storage == [accounts |-> db_accounts, symbols |-> db_symbols,
            transactions |-> db_transactions]

(***************************************************************************)
(* parsers.py: the cell parsers of the row parser.                         *)
(***************************************************************************)
\* str.split(sep) for a one-character separator.
RECURSIVE Split(_, _)
Split(s, sep) ==
    IF \A i \in 1..Len(s) : s[i] # sep
    THEN << s >>
    ELSE LET i == Min({j \in 1..Len(s) : s[j] = sep})
         IN  << SubSeq(s, 1, i - 1) >> \o Split(SubSeq(s, i + 1, Len(s)), sep)

DaysInMonth(y, m) ==
    IF m \in {4, 6, 9, 11} THEN 30
    ELSE IF m # 2 THEN 31
    ELSE IF (y % 4 = 0 /\ y % 100 # 0) \/ y % 400 = 0 THEN 29
    ELSE 28

\* datetime.strptime for the formats of parse_date: three numeric fields around one
\* separator; %Y takes four digits, %m one or two without a blank, %d one or two or
\* a blank and one; order gives the position of year, month and day among the
\* fields.  The whole text must be consumed.
strptime(date_str, sep, order) ==
    LET DayText(field) == IF Len(field) = 2 /\ field[1] = " " THEN Tail(field) ELSE field
        Checked(y, m, d) ==
            IF y >= 1 /\ m \in 1..12 /\ d \in 1..DaysInMonth(y, m)
            THEN Date(y, m, d) ELSE NoneDec
        Fields(ytxt, mtxt, dtxt) ==
            IF /\ IsDigits(ytxt) /\ Len(ytxt) = 4
               /\ IsDigits(mtxt) /\ Len(mtxt) <= 2
               /\ IsDigits(dtxt)
            THEN Checked(NumeralValue(ytxt), NumeralValue(mtxt), NumeralValue(dtxt))
            ELSE NoneDec
        Parts(parts) ==
            IF Len(parts) = 3 /\ Len(parts[order.d]) <= 2
            THEN Fields(parts[order.y], parts[order.m], DayText(parts[order.d]))
            ELSE NoneDec
    IN  Parts(Split(date_str, sep))

\* How many of the characters of s from position i on are digits, up to max.
RECURSIVE DigitRun(_, _, _)
DigitRun(s, i, max) ==
    IF max = 0 \/ i > Len(s) \/ ~IsDigit(s[i]) THEN 0 ELSE 1 + DigitRun(s, i + 1, max - 1)

\* One or two digits at position i followed by the character sep: the number of
\* digits, 0 when there is no such field.
FieldBefore(s, i, sep) ==
    LET run == DigitRun(s, i, 3)
    IN  IF run \in {1, 2} /\ i + run <= Len(s) /\ s[i + run] = sep THEN run ELSE 0

\* The date pattern of lines 17 and 33 tried at position i,
\* [0-9]{1,2}/[0-9]{1,2}/[0-9]{2,4}|[0-9]{4}-[0-9]{1,2}-[0-9]{1,2}: the length of
\* the match, 0 when it does not match there.
date_pattern_at(s, i) ==
    LET Dashed(e, f) ==
            IF DigitRun(s, i, 4) = 4 /\ i + 4 <= Len(s) /\ s[i + 4] = "-" /\ e >= 1 /\ f >= 1
            THEN e + f + 6
            ELSE 0
        DashedFrom(e) == Dashed(e, DigitRun(s, i + e + 6, 2))
        Slashed(a, b, c) ==
            IF a >= 1 /\ b >= 1 /\ c >= 2 THEN a + b + c + 2
            ELSE DashedFrom(FieldBefore(s, i + 5, "-"))
        SlashedTo(a, b) == Slashed(a, b, DigitRun(s, i + a + b + 2, 4))
        SlashedFrom(a) == SlashedTo(a, FieldBefore(s, i + a + 1, "/"))
    IN  SlashedFrom(FieldBefore(s, i, "/"))

\* re.search of the date pattern: the text of the leftmost match, None without one.
date_pattern_search(s) ==
    LET Found(len) ==
            IF \A i \in 1..Len(s) : len[i] = 0 THEN NoneText
            ELSE LET i == Min({j \in 1..Len(s) : len[j] > 0})
                 IN  SubSeq(s, i, i + len[i] - 1)
    IN  Found([i \in 1..Len(s) |-> date_pattern_at(s, i)])

\* Line 17: re.search of "as of " and the date pattern, ignoring case: the date
\* text of the leftmost match, None without one.
s_as_of == << "a", "s", " ", "o", "f", " " >>
as_of_search_Never(s) == NoneText
as_of_search(s) ==
    LET Found(len) ==
            IF \A i \in 1..Len(s) : len[i] = 0 THEN NoneText
            ELSE LET i == Min({j \in 1..Len(s) : len[j] > 0})
                 IN  SubSeq(s, i + 6, i + 5 + len[i])
    IN  Found([i \in 1..Len(s) |->
                  IF i + 5 <= Len(s) /\ Lower(SubSeq(s, i, i + 5)) = s_as_of
                  THEN date_pattern_at(s, i + 6) ELSE 0])

\* Lines 23-28: the formats '%Y-%m-%d', '%m/%d/%Y', '%d/%m/%Y' and '%d-%m-%Y', the
\* first that parses deciding.
date_formats ==
    << [sep |-> "-", order |-> [y |-> 1, m |-> 2, d |-> 3]],
       [sep |-> "/", order |-> [y |-> 3, m |-> 1, d |-> 2]],
       [sep |-> "/", order |-> [y |-> 3, m |-> 2, d |-> 1]],
       [sep |-> "-", order |-> [y |-> 3, m |-> 2, d |-> 1]] >>
try_formats(date_str) ==
    LET First(parsed) ==
            IF \A i \in 1..4 : parsed[i] = NoneDec THEN NoneDec
            ELSE parsed[Min({i \in 1..4 : parsed[i] # NoneDec})]
    IN  First([i \in 1..4 |-> strptime(date_str, date_formats[i].sep,
                                       date_formats[i].order)])

\* re.search on a value that is no str.
TypeError == [raised |-> "TypeError"]

\* parse_date: the date after "as of" replaces the text when there is one; the
\* formats are tried on the text, then on the first date pattern found in it.
parse_date_of(date_str, as_of) ==
    LET text == IF as_of # NoneText THEN as_of ELSE date_str
        Parsed(direct, found) ==
            IF direct # NoneDec THEN direct
            ELSE IF found # NoneText THEN try_formats(found)
            ELSE NoneDec
    IN  Parsed(try_formats(text), date_pattern_search(text))

parse_date(date_str) ==
    IF date_str = NoneText THEN TypeError ELSE parse_date_of(date_str, as_of_search(date_str))

\* parse_decimal: None and blank give None; '$', the euro sign and ',' are removed;
\* a text Decimal() refuses gives None.
parse_decimal(value_str) ==
    IF value_str = NoneText \/ Strip(value_str) = <<>>
    THEN NoneDec
    ELSE LET parsed == DecimalOf(Strip(Without(value_str, {"$", "€", ","})))
         IN  IF parsed = NotADecimal THEN NoneDec ELSE parsed

\* json.loads on the journal texts of the model: "{}" is the empty dict,
\* JournalText a dict with one entry, any other text is refused.
JSONDecodeError == [invalid_json |-> TRUE]
EmptyDict == [dict |-> 0]
JournalDict == [dict |-> 1]
s_emptydict == << "{", "}" >>
s_journal_json == << "{", "\"", "k", "\"", ":", "1", "}" >>
s_badjson == << "{", "b", "a", "d" >>
json_loads(text) ==
    IF Strip(text) = s_emptydict THEN EmptyDict
    ELSE IF Strip(text) = s_journal_json THEN JournalDict
    ELSE JSONDecodeError

\* parse_json: blank or invalid JSON gives None.
parse_json(json_str) ==
    IF Strip(json_str) = <<>> \/ json_loads(json_str) = JSONDecodeError
    THEN NoneDec
    ELSE json_loads(json_str)

\* Decimal arithmetic: NaN propagates quietly.
DecMul(a, b) == IF a = NaN \/ b = NaN THEN NaN ELSE Dec(a.dec * b.dec)
DecAdd(a, b) == IF a = NaN \/ b = NaN THEN NaN ELSE Dec(a.dec + b.dec)
DecSub(a, b) == IF a = NaN \/ b = NaN THEN NaN ELSE Dec(a.dec - b.dec)

\* calculate_amount: quantity, price and fees as dict.get gave them, action a
\* transaction type value.
calculate_amount_Adding(quantity, price, fees, action) ==
    IF action \in {"buy", "sell"} /\ quantity # NoneDec /\ price # NoneDec
    THEN IF fees = NoneDec THEN DecMul(quantity, price)
         ELSE DecAdd(DecMul(quantity, price), fees)
    ELSE NoneDec
calculate_amount(quantity, price, fees, action) ==
    IF action \in {"buy", "sell"} /\ quantity # NoneDec /\ price # NoneDec
    THEN IF fees = NoneDec THEN DecMul(quantity, price)
         ELSE IF action = "buy" THEN DecAdd(DecMul(quantity, price), fees)
         ELSE DecSub(DecMul(quantity, price), fees)
    ELSE NoneDec

(***************************************************************************)
(* parse_option_details: the OCC form, the scan of the description and the *)
(* symbol of pieces separated by blanks.  The numbers of the texts of the  *)
(* model are whole numbers.                                                *)
(***************************************************************************)
IsUpperLetters(s) == s # <<>> /\ \A i \in 1..Len(s) : s[i] \in DOMAIN LowerMap

\* re.match(r'^([A-Z]+)([0-9]{6})([CP])([0-9]{8})$', symbol)
occ_match(symbol) ==
    /\ Len(symbol) > 15
    /\ IsUpperLetters(SubSeq(symbol, 1, Len(symbol) - 15))
    /\ IsDigits(SubSeq(symbol, Len(symbol) - 14, Len(symbol) - 9))
    /\ symbol[Len(symbol) - 8] \in {"C", "P"}
    /\ IsDigits(SubSeq(symbol, Len(symbol) - 7, Len(symbol)))

s_exp == << "e", "x", "p" >>
s_strike == << "s", "t", "r", "i", "k", "e" >>
s_CALL == << "C", "A", "L", "L" >>
s_PUT == << "P", "U", "T" >>

UpperMap == [c \in {LowerMap[u] : u \in DOMAIN LowerMap} |->
                CHOOSE u \in DOMAIN LowerMap : LowerMap[u] = c]
Upper(s) == [i \in 1..Len(s) |-> IF s[i] \in DOMAIN UpperMap THEN UpperMap[s[i]] ELSE s[i]]

\* The text k stands in s at position i.
HasAt(s, i, k) == i + Len(k) - 1 <= Len(s) /\ SubSeq(s, i, i + Len(k) - 1) = k
\* The number of blanks of s from position i on (\s*: the blank is the only white
\* space of the texts of the model).
RECURSIVE BlankRun(_, _)
BlankRun(s, i) == IF i > Len(s) \/ s[i] # " " THEN 0 ELSE 1 + BlankRun(s, i + 1)
\* str.split(): the pieces between runs of blanks.
SplitBlank(s) == SelectSeq(Split(s, " "), LAMBDA part : part # <<>>)

\* Lines 196-202: the result before any step.
NoOption(symbol) ==
    [is_option |-> FALSE, ticker |-> symbol, option_type |-> NoneDec,
     expiration_date |-> NoneDec, strike_price |-> NoneDec]

\* Lines 212-237: the OCC form.  The strikes of the model are whole numbers.
occ_details(symbol) ==
    LET n == Len(symbol)
        year == 2000 + NumeralValue(SubSeq(symbol, n - 14, n - 13))
        month == NumeralValue(SubSeq(symbol, n - 12, n - 11))
        day == NumeralValue(SubSeq(symbol, n - 10, n - 9))
    IN  [is_option |-> TRUE,
         ticker |-> SubSeq(symbol, 1, n - 15),
         option_type |-> IF symbol[n - 8] = "C" THEN Enum("call") ELSE Enum("put"),
         expiration_date |-> IF month \in 1..12 /\ day \in 1..DaysInMonth(year, month)
                             THEN Date(year, month, day) ELSE NoneDec,
         strike_price |-> Dec(NumeralValue(SubSeq(symbol, n - 7, n)) \div 1000)]

\* Line 248: re.search(r'^(?:CALL|PUT)\s+([A-Z\s]+)\s', description), and the strip
\* of the group.  The blanks after the word are taken greedily, then the group.
ticker_search(description) ==
    LET p == IF HasAt(description, 1, s_CALL) THEN 5
             ELSE IF HasAt(description, 1, s_PUT) THEN 4 ELSE 0
        Matches ==
            {x \in (1..Len(description)) \X (1..Len(description)) :
                /\ p + x[1] <= x[2]
                /\ x[2] + 1 <= Len(description)
                /\ \A i \in p..(p + x[1] - 1) : description[i] = " "
                /\ \A i \in (p + x[1])..x[2] :
                      description[i] = " " \/ description[i] \in DOMAIN LowerMap
                /\ description[x[2] + 1] = " "}
        best == CHOOSE x \in Matches :
                    \A y \in Matches : y[1] < x[1] \/ (y[1] = x[1] /\ y[2] <= x[2])
    IN  IF p = 0 \/ Matches = {} THEN NoneText
        ELSE Strip(SubSeq(description, p + best[1], best[2]))

\* Lines 258-271: the first of the three price patterns that is found; the numbers
\* of the model have no fraction.  The words of the second pattern are in lower case.
strike_search(description) ==
    LET n == Len(description)
        dollar == {i \in 1..n : description[i] = "$" /\ DigitRun(description, i + 1, n) > 0}
        digit == {i \in 1..n : IsDigit(description[i])}
        WordAfter(j) ==
            \E word \in {s_strike, s_put, s_call} :
                HasAt(description, j + BlankRun(description, j), word)
        worded == {i \in digit : WordAfter(i + DigitRun(description, i, n))}
        start == IF dollar # {} THEN Min(dollar) + 1
                 ELSE IF worded # {} THEN Min(worded)
                 ELSE IF digit # {} THEN Min(digit) ELSE 0
    IN  IF start = 0 THEN NoneDec
        ELSE Dec(NumeralValue(SubSeq(description, start,
                                     start + DigitRun(description, start, n) - 1)))

\* [0-9]{1,2}/[0-9]{1,2}/(?:[0-9]{2}|[0-9]{4}) at position i: the length of the
\* match, 0 when there is none.  The first alternative takes two digits of the year
\* and nothing follows the group, so the match never has a year of four digits.
short_date_at(s, i) ==
    LET Slashed(a, b) ==
            IF a >= 1 /\ b >= 1 /\ DigitRun(s, i + a + b + 2, 2) = 2 THEN a + b + 4 ELSE 0
        SlashedFrom(a) == Slashed(a, FieldBefore(s, i + a + 1, "/"))
    IN  SlashedFrom(FieldBefore(s, i, "/"))

\* Lines 274-287: the date text of the first date pattern that is found, `exp` in
\* any case and blanks before a date, or else a date anywhere.
expiry_search(description) ==
    LET n == Len(description)
        DateAfterExp(i) == i + 3 + BlankRun(description, i + 3)
        Found(len) ==
            LET exp == {i \in 1..n : /\ HasAt(Lower(description), i, s_exp)
                                     /\ BlankRun(description, i + 3) >= 1
                                     /\ DateAfterExp(i) <= n
                                     /\ len[DateAfterExp(i)] > 0}
                plain == {i \in 1..n : len[i] > 0}
                start == IF exp # {} THEN DateAfterExp(Min(exp))
                         ELSE IF plain # {} THEN Min(plain) ELSE 0
            IN  IF start = 0 THEN NoneText
                ELSE SubSeq(description, start, start + len[start] - 1)
    IN  Found([i \in 1..n |-> short_date_at(description, i)])

\* Lines 240-287: the scan of the description.
description_details(symbol, description) ==
    LET desc == Lower(description)
        Ticker(ticker) == IF symbol = <<>> /\ ticker # NoneText THEN ticker ELSE symbol
        Expiry(date_str) == IF date_str = NoneText THEN NoneDec ELSE parse_date(date_str)
    IN  IF /\ TruthyText(description)
           /\ \E ind \in {s_call, s_put, s_exp, << "$" >>, s_strike} : IsSubstr(ind, desc)
        THEN [is_option |-> TRUE,
              ticker |-> Ticker(ticker_search(description)),
              option_type |-> IF IsSubstr(s_call, desc) THEN Enum("call")
                              ELSE IF IsSubstr(s_put, desc) THEN Enum("put")
                              ELSE NoneDec,
              expiration_date |-> Expiry(expiry_search(description)),
              strike_price |-> strike_search(description)]
        ELSE NoOption(symbol)

\* Lines 301-322: one piece of a symbol with blanks.
scan_part(part, r) ==
    LET Scanned(date, strike) ==
            IF date # NoneDec /\ ~TruthyValue(r.expiration_date)
            THEN [r EXCEPT !.expiration_date = date]
            ELSE IF strike # NotADecimal /\ ~TruthyValue(r.strike_price)
            THEN [r EXCEPT !.strike_price = strike]
            ELSE IF Upper(part) \in {<< "C" >>, s_CALL} /\ ~TruthyValue(r.option_type)
            THEN [r EXCEPT !.option_type = Enum("call")]
            ELSE IF Upper(part) \in {<< "P" >>, s_PUT} /\ ~TruthyValue(r.option_type)
            THEN [r EXCEPT !.option_type = Enum("put")]
            ELSE r
    IN  Scanned(parse_date(part), DecimalOf(Without(part, {"$", ","})))

RECURSIVE scan_parts(_, _, _)
scan_parts(parts, i, r) ==
    IF i > Len(parts) THEN r ELSE scan_parts(parts, i + 1, scan_part(parts[i], r))

\* Lines 291-322: a symbol of three or more pieces separated by blanks.
symbol_details(symbol, r) ==
    LET Scanned(parts) ==
            IF IsSubstr(<< " " >>, symbol) /\ Len(parts) >= 3
            THEN scan_parts(parts, 2, [r EXCEPT !.ticker = parts[1], !.is_option = TRUE])
            ELSE r
    IN  Scanned(SplitBlank(symbol))

\* Lines 326-327: an option without a type is a call.
default_option_type_Never(r) == r
default_option_type(r) ==
    IF r.is_option /\ ~TruthyValue(r.option_type)
    THEN [r EXCEPT !.option_type = Enum("call")] ELSE r

\* parse_option_details.  re.match on a symbol that is None raises TypeError.
parse_option_details(symbol, description) ==
    IF ~TruthyText(symbol) /\ ~TruthyText(description) THEN NoOption(symbol)
    ELSE IF symbol = NoneText THEN TypeError
    ELSE IF occ_match(symbol) THEN occ_details(symbol)
    ELSE default_option_type(
             symbol_details(symbol, description_details(symbol, description)))

(***************************************************************************)
(* csv_import.py: the row parser.  A CSV row is what csv.DictReader makes  *)
(* of a line: a function from the header names of the file to cell texts,  *)
(* where a line with fewer cells than the header has None for the cells it *)
(* lacks and a line with more cells has them under the key None.  A column *)
(* mapping is a function from application fields to header names.  The     *)
(* keys 'original', 'original_symbol' and the '..._str' copies of refused  *)
(* texts are not kept: no code reads them.                                 *)
(***************************************************************************)
\* The value of every enum member as a text.
CodeText ==
    [buy |-> <<"b", "u", "y">>,
     sell |-> <<"s", "e", "l", "l">>,
     buy_to_open |-> <<"b", "u", "y", "_", "t", "o", "_", "o", "p", "e", "n">>,
     sell_to_open |-> <<"s", "e", "l", "l", "_", "t", "o", "_", "o", "p", "e", "n">>,
     buy_to_close |-> <<"b", "u", "y", "_", "t", "o", "_", "c", "l", "o", "s", "e">>,
     sell_to_close |-> <<"s", "e", "l", "l", "_", "t", "o", "_", "c", "l", "o", "s", "e">>,
     option_exercise |-> <<"o", "p", "t", "i", "o", "n", "_", "e", "x", "e", "r", "c", "i", "s", "e">>,
     option_assignment |-> <<"o", "p", "t", "i", "o", "n", "_", "a", "s", "s", "i", "g", "n", "m", "e", "n", "t">>,
     option_expiration |-> <<"o", "p", "t", "i", "o", "n", "_", "e", "x", "p", "i", "r", "a", "t", "i", "o", "n">>,
     dividend |-> <<"d", "i", "v", "i", "d", "e", "n", "d">>,
     interest |-> <<"i", "n", "t", "e", "r", "e", "s", "t">>,
     deposit |-> <<"d", "e", "p", "o", "s", "i", "t">>,
     withdrawal |-> <<"w", "i", "t", "h", "d", "r", "a", "w", "a", "l">>,
     transfer_in |-> <<"t", "r", "a", "n", "s", "f", "e", "r", "_", "i", "n">>,
     transfer_out |-> <<"t", "r", "a", "n", "s", "f", "e", "r", "_", "o", "u", "t">>,
     fee |-> <<"f", "e", "e">>,
     split |-> <<"s", "p", "l", "i", "t">>,
     other |-> <<"o", "t", "h", "e", "r">>,
     stock |-> <<"s", "t", "o", "c", "k">>,
     etf |-> <<"e", "t", "f">>,
     option |-> <<"o", "p", "t", "i", "o", "n">>,
     cash |-> <<"c", "a", "s", "h">>,
     call |-> <<"c", "a", "l", "l">>,
     put |-> <<"p", "u", "t">>]

\* TransactionType(value), InstrumentType(value): the member with that value, or
\* ValueError.
EnumOf(text, values) ==
    IF \E c \in values : CodeText[c] = text
    THEN CHOOSE c \in values : CodeText[c] = text
    ELSE "ValueError"

\* `col = column_mappings.get(field)` followed by `col and col in row`.
Mapped(mapping, field, row) ==
    field \in DOMAIN mapping /\ mapping[field] \in DOMAIN row
Cell(mapping, field, row) == row[mapping[field]]

\* The cells of a row that are read with a str method or handed to re.search
\* (lines 57, 68, 93, 122, 125, 159, 174, 199, 210): on None the call raises
\* AttributeError or TypeError.  parse_decimal takes None (lines 88, 188, 215) and
\* line 192 reads `row[fees_column] or '0'`.  Line 182 looks the unmapped quantity
\* column up as None, which is the key of the surplus cells: parse_decimal raises on
\* their list.
StrFields ==
    {"date", "action", "symbol", "notes", "instrument_type", "account_name",
     "journal_details"}
RowRaises(row, mapping) ==
    \/ \E field \in StrFields : Mapped(mapping, field, row)
                                    /\ Cell(mapping, field, row) = NoneText
    \/ "quantity" \notin DOMAIN mapping /\ None \in DOMAIN row

\* Lines 96-97: account_name.split('(')[-1].split(')')[0]
BrokerOf(account_name) ==
    IF IsSubstr(<< "(" >>, account_name) /\ IsSubstr(<< ")" >>, account_name)
    THEN LET pieces == Split(account_name, "(")
         IN  Split(pieces[Len(pieces)], ")")[1]
    ELSE NoneText

s_expir == << "e", "x", "p", "i", "r" >>
s_worthless == << "w", "o", "r", "t", "h", "l", "e", "s", "s" >>
\* Line 74: option_indicators
OptionIndicators ==
    { CodeText["call"], CodeText["put"], CodeText["option"], << "b", "t", "o" >>,
      << "s", "t", "o" >>, << "b", "t", "c" >>, << "s", "t", "c" >>,
      << "e", "x", "e", "r", "c", "i", "s", "e" >>, << "a", "s", "s", "i", "g", "n" >> }

\* Lines 47-52, and every call of a parser in lines 54-223: the cells of one CSV
\* row as the column mappings select them, and what the parsers make of them; m is
\* the mapping store the standardizer consults.
parsed_cells(row, mapping, m) ==
    LET cm == mapping
        has_action == Mapped(cm, "action", row)
        original_action == IF has_action THEN Strip(Cell(cm, "action", row)) ELSE <<>>
        action == Lower(original_action)
        is_option_transaction ==
            has_action /\ \E ind \in OptionIndicators : IsSubstr(ind, action)
        early_quantity ==
            IF has_action /\ Mapped(cm, "quantity", row)
            THEN parse_decimal(Cell(cm, "quantity", row)) ELSE Absent
        broker ==
            IF Mapped(cm, "account_name", row) /\ Strip(Cell(cm, "account_name", row)) # <<>>
            THEN BrokerOf(Strip(Cell(cm, "account_name", row))) ELSE NoneText
        raw_symbol == IF Mapped(cm, "symbol", row)
                      THEN Upper(Strip(Cell(cm, "symbol", row))) ELSE <<>>
        description == IF Mapped(cm, "notes", row) THEN Strip(Cell(cm, "notes", row)) ELSE <<>>
        has_journal == /\ Mapped(cm, "journal_details", row)
                       /\ Strip(Cell(cm, "journal_details", row)) # <<>>
    IN  [has_date |-> Mapped(cm, "date", row),
         date_text |-> IF Mapped(cm, "date", row) THEN Cell(cm, "date", row) ELSE <<>>,
         \* line 56
         trans_date |-> IF Mapped(cm, "date", row)
                        THEN parse_date(Cell(cm, "date", row)) ELSE NoneDec,
         \* lines 67-100
         has_action |-> has_action,
         original_action |-> original_action,
         is_option_transaction |-> is_option_transaction,
         expired |-> has_action /\ (IsSubstr(s_expir, action) \/ IsSubstr(s_worthless, action)),
         early_quantity |-> early_quantity,
         \* lines 103-108
         standardized |-> standardize_option_transaction_type(
                              m, action, is_option_transaction, Get(early_quantity), broker),
         \* lines 116-128
         raw_symbol |-> raw_symbol,
         description |-> description,
         option_details |-> parse_option_details(raw_symbol, description),
         \* lines 158-159
         has_instr |-> Mapped(cm, "instrument_type", row),
         instr_type |-> IF Mapped(cm, "instrument_type", row)
                        THEN Strip(Lower(Cell(cm, "instrument_type", row))) ELSE <<>>,
         \* lines 173-174
         has_account |-> Mapped(cm, "account_name", row),
         account_name |-> IF Mapped(cm, "account_name", row)
                          THEN Strip(Cell(cm, "account_name", row)) ELSE AbsentText,
         \* lines 182-195
         quantity |-> IF early_quantity = Absent /\ Mapped(cm, "quantity", row)
                      THEN parse_decimal(Cell(cm, "quantity", row)) ELSE early_quantity,
         price_mapped |-> Mapped(cm, "price", row),
         price |-> IF Mapped(cm, "price", row)
                   THEN parse_decimal(Cell(cm, "price", row)) ELSE Absent,
         fees |-> IF Mapped(cm, "fees", row)
                  THEN parse_decimal(IF Cell(cm, "fees", row) \in {<<>>, NoneText} THEN << "0" >>
                                     ELSE Cell(cm, "fees", row))
                  ELSE Dec(0),
         \* lines 199-201
         has_journal |-> has_journal,
         journal_text |-> IF has_journal THEN Cell(cm, "journal_details", row) ELSE <<>>,
         journal |-> IF has_journal
                     THEN parse_json(Cell(cm, "journal_details", row)) ELSE NoneDec,
         \* lines 207-210
         notes |-> IF Mapped(cm, "notes", row) THEN Strip(Cell(cm, "notes", row))
                   ELSE AbsentText,
         \* lines 214-216
         explicit_amount |-> IF Mapped(cm, "amount", row)
                             THEN parse_decimal(Cell(cm, "amount", row)) ELSE NoneDec]

\* Lines 80-83: what an expired option gets as its price and as its amount before
\* the price and the amount columns are read.
forced_zero_Never(expired) == Absent
forced_zero(expired) == IF expired THEN Dec(0) ELSE Absent

\* Lines 45-248: the candidate built from the cells c of one CSV row.
candidate(row_num, c) ==
    LET \* lines 54-63
        date_errors ==
            IF ~c.has_date THEN << Err("Date field is required but not mapped", <<>>) >>
            ELSE IF c.trans_date = NoneDec
            THEN << Err("Invalid date format: ", c.date_text) >>
            ELSE <<>>
        \* lines 65-112
        transaction_type ==
            IF c.has_action /\ c.standardized # InvalidOperation
            THEN c.standardized ELSE AbsentCode
        action_errors ==
            IF ~c.has_action THEN << Err("Action field is required but not mapped", <<>>) >>
            ELSE IF c.standardized = InvalidOperation
            THEN << Err("Could not determine transaction type: ", c.original_action) >>
            ELSE <<>>
        \* lines 114-148
        is_option == (c.raw_symbol # <<>> \/ c.description # <<>>) /\ c.option_details.is_option
        symbol == IF is_option THEN c.option_details.ticker ELSE c.raw_symbol
        detected_type == IF is_option \/ c.is_option_transaction THEN "option" ELSE AbsentCode
        \* lines 150-154
        symbol_warnings ==
            IF /\ ~TruthyText(symbol)
               /\ transaction_type # AbsentCode
               /\ transaction_type \notin {"deposit", "withdrawal", "fee", "interest"}
            THEN << Err("Symbol is recommended for this transaction type but not mapped", <<>>) >>
            ELSE <<>>
        \* lines 156-169
        instr_member == EnumOf(c.instr_type, InstrumentTypeValues)
        instrument_type ==
            IF c.has_instr
            THEN IF c.instr_type # <<>> /\ instr_member # "ValueError"
                 THEN instr_member ELSE detected_type
            ELSE IF TruthyText(symbol) THEN "stock" ELSE detected_type
        instrument_errors ==
            IF c.has_instr /\ c.instr_type # <<>> /\ instr_member = "ValueError"
            THEN << Err("Invalid instrument type: ", c.instr_type) >> ELSE <<>>
        instrument_warnings ==
            IF ~c.has_instr /\ TruthyText(symbol)
            THEN << Err("Instrument type not provided, defaulting to 'stock'", <<>>) >>
            ELSE <<>>
        \* lines 171-178
        account_errors ==
            IF ~c.has_account THEN << Err("Account name is required but not mapped", <<>>) >>
            ELSE IF c.account_name = <<>> THEN << Err("Account name is empty", <<>>) >>
            ELSE <<>>
        \* lines 186-189
        price == IF c.price_mapped THEN c.price ELSE forced_zero(c.expired)
        \* lines 197-205
        journal_ok == c.has_journal /\ c.journal \notin {NoneDec, EmptyDict}
        journal_errors ==
            IF c.has_journal /\ ~journal_ok
            THEN << Err("Invalid JSON in journal_details: ", c.journal_text) >>
            ELSE <<>>
        \* lines 212-230
        calculated_amount ==
            IF transaction_type = AbsentCode THEN NoneDec
            ELSE calculate_amount(Get(c.quantity), Get(price), Get(c.fees), transaction_type)
        amount ==
            IF c.explicit_amount # NoneDec THEN c.explicit_amount
            ELSE IF forced_zero(c.expired) # Absent THEN forced_zero(c.expired)
            ELSE IF calculated_amount # NoneDec THEN calculated_amount
            ELSE Absent
        \* lines 232-246
        required_errors ==
            IF transaction_type = AbsentCode THEN <<>>
            ELSE (IF transaction_type \in {"buy", "sell"} /\ Get(c.quantity) = NoneDec
                  THEN << Err("Quantity is required for buy/sell transactions", <<>>) >>
                  ELSE <<>>)
              \o (IF transaction_type \in {"buy", "sell"} /\ Get(price) = NoneDec
                  THEN << Err("Price is required for buy/sell transactions", <<>>) >>
                  ELSE <<>>)
              \o (IF transaction_type \in {"deposit", "withdrawal", "fee"} /\ Get(amount) = NoneDec
                  THEN << Err("Amount is required for cash transactions", <<>>) >>
                  ELSE <<>>)
              \o (IF amount = Absent
                  THEN << Err("Cannot determine transaction amount", <<>>) >>
                  ELSE <<>>)
    IN  [row_num |-> row_num,
         errors |-> date_errors \o action_errors \o instrument_errors \o account_errors
                       \o journal_errors \o required_errors,
         warnings |-> symbol_warnings \o instrument_warnings,
         transaction_date |-> IF c.trans_date # NoneDec THEN c.trans_date ELSE Absent,
         transaction_type |-> transaction_type,
         symbol |-> symbol,
         instrument_type |-> instrument_type,
         option_type |-> IF is_option THEN c.option_details.option_type ELSE Absent,
         expiration_date |-> IF is_option THEN c.option_details.expiration_date ELSE Absent,
         strike_price |-> IF is_option THEN c.option_details.strike_price ELSE Absent,
         quantity |-> c.quantity,
         price |-> price,
         amount |-> amount,
         fees |-> c.fees,
         account_name |-> c.account_name,
         journal_details |-> IF journal_ok THEN c.journal ELSE Absent,
         notes |-> c.notes]

\* The body of the loop over the rows, lines 45-248.
import_row(row, row_num, mapping, m) == candidate(row_num, parsed_cells(row, mapping, m))

\* Lines 39-42: every mapped column must be a header of the file.
MappedColumnsExist(headers, mapping) ==
    \A field \in DOMAIN mapping : mapping[field] \in headers

\* What a call returns: the list it returned, or the exception it raised.
Returned(value) == [raised |-> "none", value |-> value]
Raised(exception) == [raised |-> exception, value |-> <<>>]

\* Lines 35-255: the candidates of a file, one per data row, numbered from 2.  An
\* exception in the loop over the rows is caught by line 254 outside the loop and
\* raised again as ValueError: no candidate is returned.
import_transactions_from_csv(file, mapping, m) ==
    IF ~MappedColumnsExist(file.headers, mapping) THEN Raised("ValueError")
    ELSE IF \E i \in 1..Len(file.rows) : RowRaises(file.rows[i], mapping)
    THEN Raised("ValueError")
    ELSE Returned([i \in 1..Len(file.rows) |-> import_row(file.rows[i], i + 1, mapping, m)])

(***************************************************************************)
(* table_model.py: the staging grid over the staged rows.                  *)
(***************************************************************************)
\* hasErrors: some row has a non-empty error list.
hasErrors(rows) == \E i \in 1..Len(rows) : rows[i].errors # <<>>

\* _add_error: the message is appended unless the list holds it.
add_error_Never(errors, error) == errors
add_error(errors, error) ==
    IF \E i \in 1..Len(errors) : errors[i] = error THEN errors ELSE Append(errors, error)

RECURSIVE add_errors(_, _)
add_errors(errors, more) ==
    IF more = <<>> THEN errors ELSE add_errors(add_error(errors, Head(more)), Tail(more))

\* _validate_row, lines 193-238: the errors the checks find in the values of the
\* row, in the order of the checks.
validation_errors(data) ==
    LET ttype == data.transaction_type
        symbol_required == ttype \in {"buy", "sell", "dividend", "split"}
    IN  (IF Get(data.transaction_date) = NoneDec
         THEN << Err("Date is required", <<>>) >> ELSE <<>>)
     \o (IF GetCode(ttype) = None
         THEN << Err("Transaction type is required", <<>>) >> ELSE <<>>)
     \o (IF ~TruthyText(data.account_name) \/ Strip(data.account_name) = <<>>
         THEN << Err("Account name is required", <<>>) >> ELSE <<>>)
     \o (IF ttype # AbsentCode /\ symbol_required /\ ~TruthyText(data.symbol)
         THEN << Err("Symbol is required for this transaction type", <<>>) >> ELSE <<>>)
     \o (IF ttype # AbsentCode /\ symbol_required /\ GetCode(data.instrument_type) = None
         THEN << Err("Instrument type is required when symbol is provided", <<>>) >>
         ELSE <<>>)
     \o (IF ttype \in {"buy", "sell"} /\ Get(data.quantity) = NoneDec
         THEN << Err("Quantity is required for buy/sell transactions", <<>>) >> ELSE <<>>)
     \o (IF ttype \in {"buy", "sell"} /\ Get(data.price) = NoneDec
         THEN << Err("Price is required for buy/sell transactions", <<>>) >> ELSE <<>>)
     \o (IF ttype # AbsentCode /\ Get(data.amount) = NoneDec
         THEN << Err("Amount is required for all transactions", <<>>) >> ELSE <<>>)

\* _validate_row: the error list of the row is emptied (line 191) and recomputed
\* from the row's values.  Between the account check and the checks by type the
\* code removes the entries that mention "account name"; the list then holds none.
validate_row_Skipped(data) == data
\* A _validate_row that empties the error list and checks nothing.
validate_row_Emptying(data) == [data EXCEPT !.errors = <<>>]
validate_row_Patching(data) ==
    [data EXCEPT !.errors = add_errors(data.errors, validation_errors(data))]
validate_row(data) == [data EXCEPT !.errors = add_errors(<<>>, validation_errors(data))]

\* setData, lines 80-139: the conversion of the edited value by column.  The value
\* is a date, a Decimal, None, a dict, or a str written Str(text).  The result is
\* the row after the assignment, or the refusal with the error it records (none
\* for a date).
IsStr(value) == "str" \in DOMAIN value
IsDate(value) == "y" \in DOMAIN value
IsDict(value) == "dict" \in DOMAIN value

Converted(data, column_name, value) ==
    CASE column_name = "transaction_date" ->
            LET Parsed(date) ==
                    IF date # NoneDec
                    THEN [ok |-> TRUE, data |-> [data EXCEPT !.transaction_date = date]]
                    ELSE [ok |-> FALSE, errors |-> <<>>]
            IN  IF IsDate(value)
                THEN [ok |-> TRUE, data |-> [data EXCEPT !.transaction_date = value]]
                ELSE Parsed(IF IsStr(value) THEN parse_date(value.str) ELSE NoneDec)
      [] column_name = "transaction_type" ->
            IF ~IsStr(value)
            THEN [ok |-> TRUE, data |-> [data EXCEPT !.transaction_type = None]]
            ELSE IF EnumOf(value.str, TransactionTypeValues) # "ValueError"
            THEN [ok |-> TRUE, data |-> [data EXCEPT !.transaction_type =
                                            EnumOf(value.str, TransactionTypeValues)]]
            ELSE [ok |-> FALSE, errors |-> << Err("Invalid transaction type: ", value.str) >>]
      [] column_name = "instrument_type" ->
            IF ~IsStr(value)
            THEN [ok |-> TRUE, data |-> [data EXCEPT !.instrument_type = None]]
            ELSE IF EnumOf(value.str, InstrumentTypeValues) # "ValueError"
            THEN [ok |-> TRUE, data |-> [data EXCEPT !.instrument_type =
                                            EnumOf(value.str, InstrumentTypeValues)]]
            ELSE [ok |-> FALSE, errors |-> << Err("Invalid instrument type: ", value.str) >>]
      [] column_name \in {"quantity", "price", "fees", "amount"} ->
            LET number == IF value = NoneDec \/ value = Str(<<>>) THEN NoneDec
                          ELSE IF IsStr(value) THEN DecimalOf(value.str)
                          ELSE value
            IN  IF number = NotADecimal
                THEN [ok |-> FALSE,
                      errors |-> << Err("Invalid number for " \o column_name \o ": ", value.str) >>]
                ELSE [ok |-> TRUE, data |-> [data EXCEPT ![column_name] = number]]
      [] column_name = "journal_details" ->
            IF IsDict(value)
            THEN [ok |-> TRUE, data |-> [data EXCEPT !.journal_details = value]]
            ELSE IF value = NoneDec \/ value = Str(<<>>)
            THEN [ok |-> TRUE, data |-> [data EXCEPT !.journal_details = NoneDec]]
            ELSE IF json_loads(value.str) # JSONDecodeError
            THEN [ok |-> TRUE, data |-> [data EXCEPT !.journal_details = json_loads(value.str)]]
            ELSE [ok |-> FALSE, errors |-> << Err("Invalid JSON: ", value.str) >>]
      [] OTHER ->
            [ok |-> TRUE, data |-> [data EXCEPT ![column_name] = value.str]]

\* setData, lines 141-152: amount follows an edit of quantity, price or fees on a
\* BUY or SELL row when it can be computed.
Recalculated_Never(data, column_name) == data
Recalculated(data, column_name) ==
    LET calculated_amount ==
            calculate_amount(Get(data.quantity), Get(data.price), Get(data.fees),
                             data.transaction_type)
    IN  IF /\ column_name \in {"quantity", "price", "fees"}
           /\ data.transaction_type \in {"buy", "sell"}
           /\ calculated_amount # NoneDec
        THEN [data EXCEPT !.amount = calculated_amount]
        ELSE data

\* setData as a whole: the rows after the call, its return value (which is also
\* whether dataChanged was emitted).
setData(rows, row, column_name, value) ==
    LET Outcome(converted) ==
            IF converted.ok
            THEN [rows |-> [rows EXCEPT ![row] =
                               validate_row(Recalculated(converted.data, column_name))],
                  ret |-> TRUE]
            ELSE [rows |-> [rows EXCEPT ![row].errors = add_errors(@, converted.errors)],
                  ret |-> FALSE]
    IN  Outcome(Converted(rows[row], column_name, value))

(***************************************************************************)
(* review_window.py: what the handlers of the window compute.              *)
(***************************************************************************)
\* An _on_data_changed that zeroes the OPTION_EXPIRATION rows whatever the errors.
on_data_changed_Always(rows) ==
    [i \in 1..Len(rows) |->
        IF rows[i].transaction_type = "option_expiration"
        THEN [rows[i] EXCEPT !.price = Dec(0), !.amount = Dec(0)]
        ELSE rows[i]]

\* _on_data_changed, lines 268-272: with no error left, every OPTION_EXPIRATION row
\* gets price 0 and amount 0.
on_data_changed(rows) ==
    IF hasErrors(rows) THEN rows
    ELSE [i \in 1..Len(rows) |->
             IF rows[i].transaction_type = "option_expiration"
             THEN [rows[i] EXCEPT !.price = Dec(0), !.amount = Dec(0)]
             ELSE rows[i]]

\* load_csv, lines 179-182: the account picked in the dialog is written into every
\* parsed row.
apply_account_override(rows, override) ==
    IF TruthyText(override)
    THEN [i \in 1..Len(rows) |-> [rows[i] EXCEPT !.account_name = override]]
    ELSE rows

\* save_to_database, lines 206-211: the request is refused while a row has errors.
RefuseCommit_Never(rows) == FALSE
RefuseCommit(rows) == hasErrors(rows)

(***************************************************************************)
(* account_selection.py: the account selection dialog.  Every account of   *)
(* the model is active and held at the broker s_Acme.                      *)
(***************************************************************************)
s_Acme == << "A", "c", "m", "e" >>
\* _load_accounts, line 79: the combo text of an account.
ItemText(name) == name \o << " ", "(" >> \o s_Acme \o << ")" >>

\* _on_account_selected, line 94: currentText().split(' (')[0]
BeforeParen(text) ==
    LET at == {i \in 1..(Len(text) - 1) : text[i] = " " /\ text[i + 1] = "("}
    IN  IF at = {} THEN text ELSE SubSeq(text, 1, Min(at) - 1)

StartsWith(text, prefix) ==
    Len(prefix) <= Len(text) /\ SubSeq(text, 1, Len(prefix)) = prefix

\* _create_new_account, lines 116-124: the new account is added and committed.
CreateAccount_Replacing(accounts, account_name) == {account_name}
CreateAccount(accounts, account_name) == accounts \cup {account_name}

(***************************************************************************)
(* Parts of the initial state shared by the specifications below.          *)
(***************************************************************************)
NoDialog == [kind |-> "none"]

\* review_window.py __init__ and _setup_ui: nothing staged, no model in the table
\* view, both buttons disabled.
WindowInit ==
    /\ transactions = <<>>
    /\ has_model = FALSE
    /\ save_button = FALSE
    /\ discard_button = FALSE
    /\ dialog = NoDialog
    /\ filepath = <<>>
    /\ column_mappings = NoneDec
    /\ account_name_override = NoneText
    /\ message = "none"
    /\ last_edit = NoCall
    /\ last_commit = NoCall
    /\ import_start = NoCall
    /\ n_steps = 0

\* An empty database, for the specifications that never touch it.
EmptyStorage ==
    /\ db_accounts = {}
    /\ db_symbols = {}
    /\ db_transactions = <<>>

\* The mapper as the module builds it at import on a machine without a mapping file.
DefaultStore ==
    /\ mappings = _load_mappings(Missing, "ok")[1]
    /\ mapping_file = _load_mappings(Missing, "ok")[2]
    /\ last_save = "ok"
    /\ last_add = NoCall
    /\ std_call = NoCall
    /\ parse_call = NoCall
    /\ n_mut = 0

(***************************************************************************)
(* The store under mutation: the mapper's add_mapping and the handlers of  *)
(* ManageMappingsDialog.  The user works on the buckets of DialogBrokers   *)
(* and on the table rows of DialogRows.                                    *)
(***************************************************************************)
MaxMutations == 2
DialogRows == {1, 2}
RowSelections == {{}, {1}, {1, 2}}

s_blank == << " ", " " >>
DialogBrokers == {s_general, s_schwab, s_acme}
AddTexts == {s_bought_to_open, s_Transferred_Out}
ApiTypes == {"buy_to_open", "bogus"}
ComboTypes == {"transfer_out", "dividend"}

\* TransactionTypeMapper.__init__ on a file that is absent or unreadable.
StoreInit ==
    /\ \E file0 \in {Missing, Corrupt}, io \in IoOutcomes :
          /\ mappings = _load_mappings(file0, io)[1]
          /\ mapping_file = _load_mappings(file0, io)[2]
          /\ last_save = IF file0 = Missing THEN SaveOutcome(io) ELSE "none"
    /\ last_add = NoCall
    /\ std_call = NoCall
    /\ parse_call = NoCall
    /\ n_mut = 0
    /\ save_call = NoCall
    /\ EmptyStorage
    /\ WindowInit

\* utils.py add_mapping, called with a lowercase broker name and an action text
\* without surrounding blanks.
AddMapping(broker, action_text, transaction_type, io) ==
    /\ n_mut < MaxMutations
    /\ mappings' = add_mapping(mappings, broker, action_text, transaction_type)
    /\ mapping_file' = _save_mappings(mappings', mapping_file, io)
    /\ last_save' = SaveOutcome(io)
    /\ last_add' = [called |-> TRUE, broker |-> broker, action_text |-> action_text,
                    transaction_type |-> transaction_type]
    /\ n_mut' = n_mut + 1

\* manage_mappings.py _add_mapping: the text box is stripped and lowercased, a blank
\* one is refused, and the rule goes to the bucket shown in the broker combo.
DialogAddMapping(broker, text, ttype, io) ==
    /\ n_mut < MaxMutations
    /\ broker \in DOMAIN mappings
    /\ LET action_text == Lower(Strip(text))
       IN  IF action_text = <<>>
           THEN UNCHANGED << mappings, mapping_file, last_save, last_add, n_mut >>
           ELSE /\ mappings' = add_mapping(mappings, broker, action_text, ttype)
                /\ mapping_file' = _save_mappings(mappings', mapping_file, io)
                /\ last_save' = SaveOutcome(io)
                /\ last_add' = [called |-> TRUE, broker |-> broker,
                                action_text |-> action_text, transaction_type |-> ttype]
                /\ n_mut' = n_mut + 1

\* An _on_type_changed that updates the store in memory and does not save it.
DialogTypeChanged_NoSave(broker, row, new_type, io) ==
    /\ n_mut < MaxMutations
    /\ broker \in DOMAIN mappings
    /\ row \in 1..Len(mappings[broker])
    /\ mappings' = [mappings EXCEPT
                      ![broker] = BucketSet(@, mappings[broker][row].k, new_type)]
    /\ UNCHANGED << mapping_file, last_save >>
    /\ last_add' = NoCall
    /\ n_mut' = n_mut + 1

\* manage_mappings.py _on_type_changed: the combo of table row `row` changed.
DialogTypeChanged(broker, row, new_type, io) ==
    /\ n_mut < MaxMutations
    /\ broker \in DOMAIN mappings
    /\ row \in 1..Len(mappings[broker])
    /\ mappings' = [mappings EXCEPT
                      ![broker] = BucketSet(@, mappings[broker][row].k, new_type)]
    /\ mapping_file' = _save_mappings(mappings', mapping_file, io)
    /\ last_save' = SaveOutcome(io)
    /\ last_add' = NoCall
    /\ n_mut' = n_mut + 1

\* manage_mappings.py _delete_selected: no selection returns at once; otherwise the
\* selected rows' keys are deleted and the store is saved.
DialogDeleteSelected(broker, selected_rows, io) ==
    /\ n_mut < MaxMutations
    /\ broker \in DOMAIN mappings
    /\ selected_rows \subseteq 1..Len(mappings[broker])
    /\ IF selected_rows = {}
       THEN UNCHANGED << mappings, mapping_file, last_save, last_add, n_mut >>
       ELSE /\ mappings' = [mappings EXCEPT ![broker] =
                   BucketDelKeys(@, {mappings[broker][r].k : r \in selected_rows})]
            /\ mapping_file' = _save_mappings(mappings', mapping_file, io)
            /\ last_save' = SaveOutcome(io)
            /\ last_add' = NoCall
            /\ n_mut' = n_mut + 1

\* manage_mappings.py _add_new_broker: a non-blank name, stripped and lowercased,
\* gets an empty bucket unless it has one.
DialogAddNewBroker(name, io) ==
    /\ n_mut < MaxMutations
    /\ LET broker == Lower(Strip(name))
       IN  IF Strip(name) # <<>> /\ broker \notin DOMAIN mappings
           THEN /\ mappings' = mappings @@ (broker :> <<>>)
                /\ mapping_file' = _save_mappings(mappings', mapping_file, io)
                /\ last_save' = SaveOutcome(io)
                /\ n_mut' = n_mut + 1
           ELSE UNCHANGED << mappings, mapping_file, last_save, n_mut >>
    /\ UNCHANGED last_add

other_than_store == << call_vars, db_vars, save_call, window_vars >>

StoreNext ==
    \/ \E b \in DialogBrokers, a \in AddTexts, t \in ApiTypes, io \in IoOutcomes :
          AddMapping(b, a, t, io) /\ UNCHANGED other_than_store
    \/ \E b \in DialogBrokers, a \in AddTexts \cup {s_blank}, t \in ComboTypes,
          io \in IoOutcomes :
          DialogAddMapping(b, a, t, io) /\ UNCHANGED other_than_store
    \/ \E b \in DialogBrokers, r \in DialogRows, t \in ComboTypes, io \in IoOutcomes :
          DialogTypeChanged(b, r, t, io) /\ UNCHANGED other_than_store
    \/ \E b \in DialogBrokers, rows \in RowSelections, io \in IoOutcomes :
          DialogDeleteSelected(b, rows, io) /\ UNCHANGED other_than_store
    \/ \E n \in {s_acme, s_Schwab, s_blank}, io \in IoOutcomes :
          DialogAddNewBroker(n, io) /\ UNCHANGED other_than_store

SpecStore == StoreInit /\ [][StoreNext]_vars

(***************************************************************************)
(* The standardizer as a function: the store is what the constructor       *)
(* loaded from one of StdFiles, and every call draws its arguments from    *)
(* the sets below.                                                         *)
(***************************************************************************)
s_garbage == <<"g", "a", "r", "b", "a", "g", "e">>
s_wire == <<"w", "i", "r", "e">>

\* A store edited by hand or by earlier sessions: a broker entry naming the other
\* transfer direction, and a general entry whose value is no type code.
EditedStore ==
    add_mapping(add_mapping(_init_default_mappings, s_schwab, s_Journal, "transfer_out"),
                s_general, s_garbage, "bogus")

\* A store without the general bucket.
BareStore == s_acme :> << [k |-> s_wire, v |-> "transfer_out"] >>

StdFiles == {Missing, Corrupt, FileOf(EditedStore), FileOf(BareStore)}
StdActions == {s_Buy_to_Open, s_STC, s_unknown_garbage, s_Transferred_Out, s_Journal,
               s_bought_to_open, s__Wire_}
StdBrokers == {NoneText, s_Schwab, s_fidelity, s_acme}
StdQuantities == {NoneDec, Dec(-5), Dec(0), Dec(5), NaN}

StdInit ==
    /\ \E file0 \in StdFiles :
          /\ mappings = _load_mappings(file0, "ok")[1]
          /\ mapping_file = _load_mappings(file0, "ok")[2]
          /\ last_save = IF file0 = Missing THEN "ok" ELSE "none"
    /\ last_add = NoCall
    /\ std_call = NoCall
    /\ parse_call = NoCall
    /\ n_mut = 0
    /\ save_call = NoCall
    /\ EmptyStorage
    /\ WindowInit

\* One call of standardize_option_transaction_type on the loaded store.
Standardize(action_str, is_option, quantity, broker) ==
    /\ std_call = NoCall
    /\ std_call' = [called |-> TRUE, action_str |-> action_str, is_option |-> is_option,
                    quantity |-> quantity, broker |-> broker,
                    result |-> standardize_option_transaction_type(
                                  mappings, action_str, is_option, quantity, broker)]
    /\ UNCHANGED << store_vars, parse_call, db_vars, save_call, window_vars >>

StdNext ==
    \E a \in StdActions, o \in BOOLEAN, q \in StdQuantities, b \in StdBrokers :
        Standardize(a, o, q, b)

SpecStd == StdInit /\ [][StdNext]_vars

(***************************************************************************)
(* save_transactions as a function: one call on a batch of SaveBatches,    *)
(* over a storage left by earlier imports.                                 *)
(***************************************************************************)
s_IRA == <<"I", "R", "A">>
s_Nope == <<"N", "o", "p", "e">>
s_AAPL == <<"A", "A", "P", "L">>
s_abc == <<"a", "b", "c">>
s__5 == <<"$", "5">>
s_cash == <<"c", "a", "s", "h">>
s_stock == <<"s", "t", "o", "c", "k">>
s_bad == <<"b", "a", "d">>
s_opt == <<"o", "p", "t">>
s_txt == <<"t", "x", "t">>
s_badstrike == <<"b", "a", "d", "s", "t", "r", "i", "k", "e">>
s_noacct == <<"n", "o", "a", "c", "c", "t">>
s_noamount == <<"n", "o", "a", "m", "o", "u", "n", "t">>
s_old == <<"o", "l", "d">>
s_any == <<"a", "n", "y">>

\* A deposit into account IRA, without errors or warnings; its notes tell the rows
\* of a batch apart.
CashRow ==
    [errors |-> <<>>, warnings |-> <<>>, row_num |-> 2,
     transaction_date |-> Date(2024, 7, 19), transaction_type |-> "deposit",
     symbol |-> <<>>, instrument_type |-> AbsentCode, option_type |-> Absent,
     expiration_date |-> Absent, strike_price |-> Absent,
     quantity |-> Absent, price |-> Absent, amount |-> Dec(5), fees |-> Dec(0),
     account_name |-> s_IRA, journal_details |-> Absent, notes |-> s_cash]

\* A purchase of a stock, carrying the parser's warning about the instrument type.
StockRow ==
    [CashRow EXCEPT !.transaction_type = "buy", !.symbol = s_AAPL,
        !.instrument_type = "stock", !.quantity = Dec(1), !.price = Dec(5),
        !.warnings = << Err("Instrument type not provided, defaulting to 'stock'", <<>>) >>,
        !.notes = s_stock]

\* The same purchase with a journal cell that is no JSON: a row with an error that
\* holds every value a transaction needs.
ErrorRow ==
    [StockRow EXCEPT
        !.errors = << Err("Invalid JSON in journal_details: ", s_abc) >>,
        !.notes = s_bad]

OptionRow ==
    [StockRow EXCEPT !.instrument_type = "option", !.option_type = Enum("call"),
        !.strike_price = Dec(5), !.warnings = <<>>, !.notes = s_opt]

\* An option row without a strike: the query does not filter on the strike.
AnyStrikeRow == [OptionRow EXCEPT !.strike_price = Absent, !.notes = s_any]

\* Option rows whose strike is a str: "$5", and "abc" which is no number.
TextStrikeRow == [OptionRow EXCEPT !.strike_price = Str(s__5), !.notes = s_txt]
BadStrikeRow == [OptionRow EXCEPT !.strike_price = Str(s_abc), !.notes = s_badstrike]

\* A row naming an account the database does not hold, and a row whose amount is None.
NoAccountRow == [CashRow EXCEPT !.account_name = s_Nope, !.notes = s_noacct]
NoAmountRow == [CashRow EXCEPT !.amount = NoneDec, !.notes = s_noamount]

SaveRows == {CashRow, StockRow, ErrorRow, OptionRow, AnyStrikeRow, TextStrikeRow, BadStrikeRow,
             NoAccountRow, NoAmountRow}
SaveBatches == {<<>>} \cup {<< r >> : r \in SaveRows}
                      \cup {<< r1, r2 >> : r1 \in SaveRows, r2 \in SaveRows}

AAPLStock ==
    [ticker |-> s_AAPL, instrument_type |-> "stock", option_type |-> NoneDec,
     expiration_date |-> NoneDec, strike_price |-> NoneDec]
AAPLCall ==
    [ticker |-> s_AAPL, instrument_type |-> "option", option_type |-> Enum("call"),
     expiration_date |-> NoneDec, strike_price |-> NoneDec]
AAPLCall5 == [AAPLCall EXCEPT !.strike_price = Dec(5)]
OldTransaction == NewTransaction([CashRow EXCEPT !.notes = s_old], NoneDec)

SaveInit ==
    /\ db_accounts = {s_IRA}
    /\ db_symbols \in {{}, {AAPLStock}, {AAPLCall, AAPLCall5}}
    /\ db_transactions \in {<<>>, << OldTransaction >>}
    /\ save_call = NoCall
    /\ DefaultStore
    /\ WindowInit

SaveTransactions(rows, commit_ok) ==
    /\ save_call = NoCall
    /\ \E out \in save_transactions(rows, Storage, commit_ok) :
          /\ db_accounts' = out.db.accounts
          /\ db_symbols' = out.db.symbols
          /\ db_transactions' = out.db.transactions
          /\ save_call' = [called |-> TRUE, rows |-> rows, before |-> Storage,
                           commit_ok |-> commit_ok, ret |-> out.ret]
    /\ UNCHANGED << store_vars, call_vars, window_vars >>

SaveNext == \E rows \in SaveBatches, commit_ok \in BOOLEAN : SaveTransactions(rows, commit_ok)

SpecSave == SaveInit /\ [][SaveNext]_vars

(***************************************************************************)
(* The review window at work.  The user picks one of the files of CsvFiles,*)
(* confirms one of the mappings of ColumnMappings in the mapping dialog,   *)
(* edits cells of the grid and asks to save or to discard.  A file dialog   *)
(* closed without a file leaves the window as it was and is no step.       *)
(***************************************************************************)
s_date1 == << "2", "0", "2", "4", "-", "0", "7", "-", "1", "9" >>
s_date2 == << "0", "7", "/", "2", "2", "/", "2", "0", "2", "4" >>
s_soon == << "s", "o", "o", "n" >>
s_Buy == << "B", "u", "y" >>
s_Deposit == << "D", "e", "p", "o", "s", "i", "t" >>
s_aapl == << "a", "a", "p", "l" >>
s_Roth == << "R", "o", "t", "h" >>

CsvHeaders == {"Date", "Action", "Symbol", "Quantity", "Price", "Amount", "Account", "Journal"}

FullMapping ==
    [date |-> "Date", action |-> "Action", symbol |-> "Symbol", quantity |-> "Quantity",
     price |-> "Price", amount |-> "Amount", account_name |-> "Account",
     journal_details |-> "Journal"]
NoAccountMapping ==
    [date |-> "Date", action |-> "Action", symbol |-> "Symbol", quantity |-> "Quantity",
     price |-> "Price", amount |-> "Amount", journal_details |-> "Journal"]
ColumnMappings == {FullMapping, NoAccountMapping}

BuyLine ==
    [Date |-> s_date1, Action |-> s_Buy, Symbol |-> s_aapl, Quantity |-> << "1" >>,
     Price |-> << "5" >>, Amount |-> <<>>, Account |-> s_IRA, Journal |-> <<>>]
DepositLine ==
    [Date |-> s_date2, Action |-> s_Deposit, Symbol |-> <<>>, Quantity |-> <<>>,
     Price |-> <<>>, Amount |-> << "5" >>, Account |-> s_IRA, Journal |-> <<>>]
UndatedLine == [DepositLine EXCEPT !.Date = s_soon, !.Amount = <<>>]

GoodFile == [path |-> << "g" >>, headers |-> CsvHeaders, rows |-> << BuyLine, DepositLine >>]
MixedFile == [path |-> << "m" >>, headers |-> CsvHeaders, rows |-> << UndatedLine, BuyLine >>]
CsvFiles == {GoodFile, MixedFile}

\* What the delegates of the grid hand to setData: a date from the date editor,
\* a member's value from a combo box, a Decimal or None from the decimal editor,
\* None or the rejected text from the JSON editor, the text of a line editor.
CellEdits ==
    { [column |-> "journal_details", value |-> Str(s_badjson)],
      [column |-> "journal_details", value |-> NoneDec],
      [column |-> "amount", value |-> NoneDec],
      [column |-> "amount", value |-> Dec(5)],
      [column |-> "quantity", value |-> Dec(2)],
      [column |-> "transaction_date", value |-> Date(2024, 7, 19)],
      [column |-> "transaction_type", value |-> Str(CodeText["option_expiration"])],
      [column |-> "account_name", value |-> Str(s_Roth)] }

\* What the user types into the account dialog: a name, and a broker or nothing.
NewAccountNames == {s_Roth, << " " >>}
NewAccountBrokers == {s_Acme, <<>>}

\* How many requests of the user (load, new account, edit, save, discard) a
\* behaviour holds.
MaxSteps == 3

WindowStorageInit ==
    /\ db_accounts = {s_IRA}
    /\ db_symbols = {}
    /\ db_transactions = <<>>
    /\ save_call = NoCall

ReviewInit ==
    /\ DefaultStore
    /\ WindowStorageInit
    /\ WindowInit

AccountDialog(file) ==
    [kind |-> "account", file |-> file, selected_account |-> NoneText, ok_button |-> FALSE]

\* load_csv, lines 136-147: a file is picked and read for its headers and its
\* preview; the mapping dialog opens on them.  A file that cannot be read ends
\* the request with the error box.
LoadCsv(file, readable) ==
    /\ dialog = NoDialog
    /\ n_steps < MaxSteps
    /\ filepath' = file.path
    /\ IF readable
       THEN dialog' = [kind |-> "mapping", file |-> file] /\ message' = "none"
       ELSE dialog' = dialog /\ message' = "Failed to load CSV"
    /\ import_start' = [called |-> TRUE, db |-> Storage, created |-> {},
                        commit_requested |-> FALSE]
    /\ n_steps' = n_steps + 1
    /\ UNCHANGED << store_vars, call_vars, db_vars, save_call, transactions, has_model,
                    save_button, discard_button, column_mappings, account_name_override,
                    last_edit, last_commit >>

\* load_csv, lines 176-192, and _setup_table_model: the file is parsed with the
\* mappings, the picked account is written into every row, the rows are staged in a
\* new table model and the buttons are set.  When the parser raises, line 197 shows
\* the error box and the grid stays as it was.
Stage(file, override) ==
    LET Show(parsed) ==
            IF parsed.raised = "none"
            THEN /\ transactions' = apply_account_override(parsed.value, override)
                 /\ has_model' = TRUE
                 /\ save_button' = ~hasErrors(transactions')
                 /\ discard_button' = TRUE
                 /\ message' = "none"
            ELSE /\ message' = "Failed to load CSV"
                 /\ UNCHANGED << transactions, has_model, save_button, discard_button >>
    IN  /\ account_name_override' = override
        /\ dialog' = NoDialog
        /\ Show(import_transactions_from_csv(file, column_mappings', mappings))

\* load_csv, lines 150-174: the mapping dialog is accepted.  Without a column for
\* the account the account dialog opens; with one the file is parsed and staged.
MappingAccept(mapping) ==
    /\ dialog.kind = "mapping"
    /\ column_mappings' = mapping
    /\ IF "account_name" \notin DOMAIN mapping
       THEN /\ dialog' = AccountDialog(dialog.file)
            /\ message' = "none"
            /\ UNCHANGED << account_name_override, transactions, has_model, save_button,
                            discard_button >>
       ELSE Stage(dialog.file, NoneText)
    /\ UNCHANGED << store_vars, call_vars, db_vars, save_call, filepath, last_edit,
                    last_commit, import_start, n_steps >>

\* load_csv, lines 193-195: the mapping dialog is cancelled.
MappingCancel ==
    /\ dialog.kind = "mapping"
    /\ filepath' = <<>>
    /\ dialog' = NoDialog
    /\ message' = "none"
    /\ UNCHANGED << store_vars, call_vars, db_vars, save_call, transactions, has_model,
                    save_button, discard_button, column_mappings, account_name_override,
                    last_edit, last_commit, import_start, n_steps >>

\* _on_account_selected: an account of the combo box is picked.
AccountPick(account) ==
    /\ dialog.kind = "account"
    /\ account \in db_accounts
    /\ dialog' = [dialog EXCEPT !.selected_account = BeforeParen(ItemText(account)),
                                !.ok_button = TRUE]
    /\ message' = "none"
    /\ UNCHANGED << store_vars, call_vars, db_vars, save_call, transactions, has_model,
                    save_button, discard_button, filepath, column_mappings,
                    account_name_override, last_edit, last_commit, import_start,
                    n_steps >>

\* _on_account_selected: the placeholder of the combo box is picked.
AccountPickNone ==
    /\ dialog.kind = "account"
    /\ dialog.ok_button
    /\ dialog' = [dialog EXCEPT !.ok_button = FALSE]
    /\ message' = "none"
    /\ UNCHANGED << store_vars, call_vars, db_vars, save_call, transactions, has_model,
                    save_button, discard_button, filepath, column_mappings,
                    account_name_override, last_edit, last_commit, import_start,
                    n_steps >>

\* _create_new_account: a blank name or broker ends with a warning; otherwise the
\* account is added and committed, the combo box is reloaded and its first item
\* that starts with the name is picked (the query gives the accounts in no stated
\* order; no name of the model starts the placeholder item).  A failure of the
\* database ends with the error box.
AccountCreate(name_text, broker_text, db_ok) ==
    LET account_name == Strip(name_text)
        broker == Strip(broker_text)
        accounts == CreateAccount(db_accounts, account_name)
    IN  /\ dialog.kind = "account"
        /\ n_steps < MaxSteps
        /\ n_steps' = n_steps + 1
        /\ IF account_name = <<>> \/ broker = <<>>
           THEN /\ message' = "Please enter a name"
                /\ UNCHANGED << db_vars, dialog, import_start >>
           ELSE IF ~db_ok
           THEN /\ message' = "Failed to create account"
                /\ UNCHANGED << db_vars, dialog, import_start >>
           ELSE /\ db_accounts' = accounts
                /\ UNCHANGED << db_symbols, db_transactions >>
                /\ \E account \in {a \in accounts : StartsWith(ItemText(a), account_name)} :
                      dialog' = [dialog EXCEPT
                                    !.selected_account = BeforeParen(ItemText(account)),
                                    !.ok_button = TRUE]
                /\ import_start' = [import_start EXCEPT !.created = @ \cup {account_name}]
                /\ message' = "Account created"
        /\ UNCHANGED << store_vars, call_vars, save_call, transactions, has_model,
                        save_button, discard_button, filepath, column_mappings,
                        account_name_override, last_edit, last_commit >>

\* load_csv, lines 159-169 and 176-192: the account dialog is accepted with the
\* picked account, which becomes the account of every row.
AccountOk ==
    /\ dialog.kind = "account"
    /\ dialog.ok_button
    /\ column_mappings' = column_mappings
    /\ IF TruthyText(dialog.selected_account)
       THEN Stage(dialog.file, dialog.selected_account)
       ELSE /\ dialog' = NoDialog
            /\ message' = "No account selected"
            /\ UNCHANGED << account_name_override, transactions, has_model, save_button,
                            discard_button >>
    /\ UNCHANGED << store_vars, call_vars, db_vars, save_call, filepath, last_edit,
                    last_commit, import_start, n_steps >>

\* load_csv, lines 170-172: the account dialog is cancelled.
AccountCancel ==
    /\ dialog.kind = "account"
    /\ dialog' = NoDialog
    /\ message' = "none"
    /\ UNCHANGED << store_vars, call_vars, db_vars, save_call, transactions, has_model,
                    save_button, discard_button, filepath, column_mappings,
                    account_name_override, last_edit, last_commit, import_start,
                    n_steps >>

\* A cell of the grid is edited: setData, and on an accepted edit the slot
\* _on_data_changed that dataChanged is connected to.  A refused edit emits nothing.
SetData(row, column_name, value) ==
    LET Emit(edited) ==
            /\ transactions' = IF edited.ret THEN on_data_changed(edited.rows)
                               ELSE edited.rows
            /\ save_button' = IF edited.ret THEN ~hasErrors(edited.rows) ELSE save_button
            /\ last_edit' = [called |-> TRUE, row |-> row, column |-> column_name,
                             value |-> value, ret |-> edited.ret,
                             before |-> transactions[row], after |-> transactions'[row]]
    IN  /\ dialog = NoDialog
        /\ has_model
        /\ row \in 1..Len(transactions)
        /\ n_steps < MaxSteps
        /\ Emit(setData(transactions, row, column_name, value))
        /\ message' = "none"
        /\ n_steps' = n_steps + 1
        /\ UNCHANGED << store_vars, call_vars, db_vars, save_call, has_model, discard_button,
                        dialog, filepath, column_mappings, account_name_override,
                        last_commit, import_start >>

\* A discard_data that drops the rows and leaves the buttons as they are.
discard_data_ButtonsLeft ==
    /\ transactions' = <<>>
    /\ filepath' = <<>>
    /\ column_mappings' = NoneDec
    /\ account_name_override' = NoneText
    /\ has_model' = FALSE
    /\ UNCHANGED << save_button, discard_button >>

\* discard_data: the staged rows and the choices of the load are dropped, the table
\* view loses its model and both buttons are disabled.
discard_data ==
    /\ transactions' = <<>>
    /\ filepath' = <<>>
    /\ column_mappings' = NoneDec
    /\ account_name_override' = NoneText
    /\ has_model' = FALSE
    /\ save_button' = FALSE
    /\ discard_button' = FALSE

\* save_to_database: nothing staged ends the request; a row with errors ends it
\* with a warning; otherwise save_transactions runs on the rows of the grid, and
\* the staging is discarded on success and kept on failure.
SaveToDatabase(commit_ok) ==
    /\ dialog = NoDialog
    /\ save_button
    /\ n_steps < MaxSteps
    /\ n_steps' = n_steps + 1
    /\ import_start' = [import_start EXCEPT !.commit_requested = TRUE]
    /\ IF transactions = <<>>
       THEN /\ last_commit' = [called |-> TRUE, rows |-> transactions, before |-> Storage,
                               after |-> Storage, staged |-> transactions,
                               outcome |-> "nothing staged"]
            /\ message' = "none"
            /\ UNCHANGED << db_vars, transactions, filepath, column_mappings,
                            account_name_override, has_model, save_button, discard_button >>
       ELSE IF RefuseCommit(transactions)
       THEN /\ last_commit' = [called |-> TRUE, rows |-> transactions, before |-> Storage,
                               after |-> Storage, staged |-> transactions,
                               outcome |-> "refused"]
            /\ message' = "Please fix all validation errors before saving"
            /\ UNCHANGED << db_vars, transactions, filepath, column_mappings,
                            account_name_override, has_model, save_button, discard_button >>
       ELSE \E out \in save_transactions(transactions, Storage, commit_ok) :
               /\ db_accounts' = out.db.accounts
               /\ db_symbols' = out.db.symbols
               /\ db_transactions' = out.db.transactions
               /\ IF out.ret = "True"
                  THEN /\ discard_data
                       /\ message' = "Successfully imported"
                       /\ last_commit' = [called |-> TRUE, rows |-> transactions,
                                          before |-> Storage, after |-> out.db,
                                          staged |-> <<>>, outcome |-> "saved"]
                  ELSE /\ message' = "Failed to save transactions"
                       /\ last_commit' = [called |-> TRUE, rows |-> transactions,
                                          before |-> Storage, after |-> out.db,
                                          staged |-> transactions, outcome |-> "failed"]
                       /\ UNCHANGED << transactions, filepath, column_mappings,
                                       account_name_override, has_model, save_button,
                                       discard_button >>
    /\ UNCHANGED << store_vars, call_vars, save_call, dialog, last_edit >>

\* The discard button.
Discard ==
    /\ dialog = NoDialog
    /\ discard_button
    /\ n_steps < MaxSteps
    /\ n_steps' = n_steps + 1
    /\ discard_data
    /\ message' = "none"
    /\ UNCHANGED << store_vars, call_vars, db_vars, save_call, dialog, last_edit, last_commit,
                    import_start >>

ReviewNext ==
    \/ \E file \in CsvFiles, readable \in BOOLEAN : LoadCsv(file, readable)
    \/ \E mapping \in ColumnMappings : MappingAccept(mapping)
    \/ MappingCancel
    \/ \E account \in db_accounts : AccountPick(account)
    \/ AccountPickNone
    \/ \E name_text \in NewAccountNames, broker_text \in NewAccountBrokers, db_ok \in BOOLEAN :
          AccountCreate(name_text, broker_text, db_ok)
    \/ AccountOk
    \/ AccountCancel
    \/ \E row \in 1..2, edit \in CellEdits : SetData(row, edit.column, edit.value)
    \/ \E commit_ok \in BOOLEAN : SaveToDatabase(commit_ok)
    \/ Discard

SpecReview == ReviewInit /\ [][ReviewNext]_vars

(***************************************************************************)
(* The parsers called on their own.  parse_call is NoCall until one call   *)
(* is made; it then holds the arguments of the call and what it returned.  *)
(***************************************************************************)
ParsersInit ==
    /\ DefaultStore
    /\ EmptyStorage
    /\ save_call = NoCall
    /\ WindowInit

\* The decimal numeral of n, with zeros in front up to the width.
RECURSIVE Numeral(_, _)
Numeral(n, width) ==
    IF n < 10 /\ width <= 1 THEN << DigitChars[n + 1] >>
    ELSE Append(Numeral(n \div 10, width - 1), DigitChars[(n % 10) + 1])

\* A calendar date as a broker writes it: year-month-day, month/day/year or
\* day/month/year, the month and the day with or without a zero in front, the
\* year in full or, in the short form, by its last two digits.
WriteDate(form, d, width) ==
    CASE form = "ISO" -> Numeral(d.y, 4) \o << "-" >> \o Numeral(d.m, width)
                            \o << "-" >> \o Numeral(d.d, width)
      [] form = "US" -> Numeral(d.m, width) \o << "/" >> \o Numeral(d.d, width)
                            \o << "/" >> \o Numeral(d.y, 4)
      [] form = "EU" -> Numeral(d.d, width) \o << "/" >> \o Numeral(d.m, width)
                            \o << "/" >> \o Numeral(d.y, 4)
      [] form = "US short" -> Numeral(d.m, width) \o << "/" >> \o Numeral(d.d, width)
                            \o << "/" >> \o Numeral(d.y % 100, 2)

DateYears == {2023, 2024}
DateMonths == {1, 2, 7, 12}
DateDays == {1, 5, 12, 13, 29, 31}
ValidDates ==
    {dt \in [y : DateYears, m : DateMonths, d : DateDays] : dt.d <= DaysInMonth(dt.y, dt.m)}
WrittenDates == [form : {"ISO", "US", "EU"}, date : ValidDates, width : {1, 2}]
\* The "as of" part of a date cell, or none.
AsOfDates ==
    {NoneDec} \cup [form : {"ISO", "US", "EU", "US short"},
                    date : {Date(2024, 7, 19), Date(2023, 3, 4)}, width : {2}]

DateText(written, as_of) ==
    WriteDate(written.form, written.date, written.width)
        \o (IF as_of = NoneDec THEN <<>>
            ELSE << " " >> \o s_as_of \o WriteDate(as_of.form, as_of.date, as_of.width))

\* One call of parse_date on a date cell.
ParseDate(written, as_of) ==
    /\ parse_call = NoCall
    /\ parse_call' = [fn |-> "parse_date", written |-> written, as_of |-> as_of,
                      text |-> DateText(written, as_of),
                      result |-> parse_date(DateText(written, as_of))]
    /\ UNCHANGED << store_vars, std_call, db_vars, save_call, window_vars >>

DateNext == \E written \in WrittenDates, as_of \in AsOfDates : ParseDate(written, as_of)

SpecDate == ParsersInit /\ [][DateNext]_vars

(***************************************************************************)
(* parse_option_details on the symbols and the notes of option rows.       *)
(***************************************************************************)
s_MSFT == << "M", "S", "F", "T" >>
s_occ_call ==
    << "A", "A", "P", "L", "2", "4", "0", "7", "1", "9", "C", "0", "0", "1", "5", "0", "0",
       "0", "0" >>
s_occ_put ==
    << "A", "A", "P", "L", "2", "4", "0", "2", "3", "0", "P", "0", "0", "0", "0", "5", "0",
       "0", "0" >>
s_expiry == << "1", "2", "/", "1", "8", "/", "2", "0", "2", "6" >>
s_expiry_short == << "1", "2", "/", "1", "8", "/", "2", "6" >>
s_400 == << "4", "0", "0" >>
s_EXP == << "E", "X", "P" >>
s_CORP == << "C", "O", "R", "P" >>

\* str.join(' ', words)
RECURSIVE JoinBlank(_)
JoinBlank(words) ==
    IF words = <<>> THEN <<>>
    ELSE IF Len(words) = 1 THEN words[1]
    ELSE words[1] \o << " " >> \o JoinBlank(Tail(words))

OptionSymbols ==
    {JoinBlank(words) : words \in
        { <<>>, << s_MSFT >>, << s_occ_call >>, << s_occ_put >>,
          << s_MSFT, s_expiry, s_400, << "C" >> >>,
          << s_MSFT, s_expiry, s_400, << "p" >> >>,
          << s_MSFT, s_expiry, s_400 >>,
          << s_MSFT, s_PUT, << "C" >> >>,
          << s_MSFT, << "0" >>, << "$", "5" >>, s_expiry_short >>,
          << s_MSFT, s_400 >>,
          << s_MSFT, s_CORP, s_EXP >> }}
OptionDescriptions ==
    {NoneText} \cup
    {JoinBlank(words) : words \in
        { <<>>, << s_CORP >>,
          << s_CALL, s_MSFT, s_CORP, << "$" >> \o s_400, s_EXP, s_expiry_short >>,
          << s_PUT, s_MSFT, s_400, s_strike >>,
          << s_put, s_400 >>,
          << s_MSFT, << "$" >> \o s_400 >>,
          << s_MSFT, s_exp, s_expiry >>,
          << s_400, s_strike >>,
          << s_exp \o << "i", "r", "e", "d" >> >> }}

\* One call of parse_option_details.
ParseOption(symbol, description) ==
    /\ parse_call = NoCall
    /\ parse_call' = [fn |-> "parse_option_details", symbol |-> symbol,
                      description |-> description,
                      result |-> parse_option_details(symbol, description)]
    /\ UNCHANGED << store_vars, std_call, db_vars, save_call, window_vars >>

OptionNext ==
    \E symbol \in OptionSymbols, description \in OptionDescriptions :
        ParseOption(symbol, description)

SpecOption == ParsersInit /\ [][OptionNext]_vars

(***************************************************************************)
(* import_transactions_from_csv on files of one or two lines.              *)
(***************************************************************************)
ImportHeaders ==
    << "Date", "Action", "Symbol", "Quantity", "Price", "Amount", "Account", "Type",
       "Notes", "Fees" >>

\* csv.DictReader: the row of a line.  The cells a short line lacks are None
\* (restval); the surplus cells of a long line are a list under the key None
\* (restkey).
DictRow(headers, cells) ==
    [h \in {headers[i] : i \in 1..Len(headers)}
            \cup (IF Len(cells) > Len(headers) THEN {None} ELSE {}) |->
        IF h = None THEN [i \in 1..(Len(cells) - Len(headers)) |-> cells[Len(headers) + i]]
        ELSE LET i == CHOOSE j \in 1..Len(headers) : headers[j] = h
             IN  IF i <= Len(cells) THEN cells[i] ELSE NoneText]

s_Sell == << "S", "e", "l", "l" >>
s_Dividend == << "D", "i", "v", "i", "d", "e", "n", "d" >>
s_Expired == << "E", "x", "p", "i", "r", "e", "d" >>
s_option == << "o", "p", "t", "i", "o", "n" >>
s_call_note == JoinBlank(<< s_CALL, s_MSFT, s_CORP, << "$" >> \o s_400 >>)

BuyCells ==
    << s_date1, s_Buy, s_aapl, << "2" >>, << "5" >>, <<>>, s_IRA, <<>>, <<>>, << "1" >> >>
ImportLines ==
    { BuyCells,
      \* a sale, and a purchase with the amount the broker charged
      [BuyCells EXCEPT ![2] = s_Sell],
      [BuyCells EXCEPT ![6] = << "1", "2" >>],
      \* a dividend without and with its amount
      << s_date1, s_Dividend, s_aapl, <<>>, <<>>, <<>>, s_IRA, <<>>, <<>>, <<>> >>,
      << s_date1, s_Dividend, s_aapl, <<>>, <<>>, << "5" >>, s_IRA, <<>>, <<>>, <<>> >>,
      \* an expired option: with a price and an amount, and with both cells empty
      << s_date1, s_Expired, s_occ_call, << "1" >>, << "5" >>, << "7" >>, s_IRA, s_option,
         <<>>, <<>> >>,
      << s_date1, s_Expired, s_occ_call, << "1" >>, <<>>, <<>>, s_IRA, s_option, <<>>,
         <<>> >>,
      \* the purchase of an option known by its symbol, and of one known by its notes
      << s_date1, s_Buy, s_occ_call, << "1" >>, << "5" >>, <<>>, s_IRA, <<>>, <<>>, <<>> >>,
      << s_date1, s_Buy, <<>>, << "1" >>, << "5" >>, <<>>, s_IRA, <<>>, s_call_note,
         <<>> >>,
      \* a line that ends after the action, and a line with one cell too many
      << s_date1, s_Buy >>,
      Append(BuyCells, << "x" >>),
      \* a line of cells no parser accepts
      << s_soon, << "?" >>, <<>>, << "x" >>, << "y" >>, << "z" >>, <<>>, << "q" >>, <<>>,
         << "w" >> >> }

ImportFiles ==
    {[path |-> << "i" >>,
      headers |-> {ImportHeaders[i] : i \in 1..Len(ImportHeaders)},
      rows |-> [i \in 1..Len(lines) |-> DictRow(ImportHeaders, lines[i])]] :
        lines \in {<< l >> : l \in ImportLines}
                  \cup {<< k, l >> : k \in ImportLines, l \in ImportLines}}

AllColumns ==
    [date |-> "Date", action |-> "Action", symbol |-> "Symbol", quantity |-> "Quantity",
     price |-> "Price", amount |-> "Amount", account_name |-> "Account",
     instrument_type |-> "Type", notes |-> "Notes", fees |-> "Fees"]
Restrict(f, S) == [x \in S |-> f[x]]
ImportMappings ==
    { AllColumns,
      Restrict(AllColumns, DOMAIN AllColumns \ {"instrument_type"}),
      Restrict(AllColumns, DOMAIN AllColumns \ {"instrument_type", "price", "amount"}),
      Restrict(AllColumns, DOMAIN AllColumns \ {"quantity"}),
      Restrict(AllColumns, {"date", "quantity", "price", "amount"}),
      \* a mapping to a column the files do not have
      [AllColumns EXCEPT !.notes = "Memo"] }

\* One call of import_transactions_from_csv with the mappings of the store.
ImportCsv(file, mapping) ==
    /\ parse_call = NoCall
    /\ parse_call' = [fn |-> "import_transactions_from_csv", file |-> file,
                      mapping |-> mapping,
                      result |-> import_transactions_from_csv(file, mapping, mappings)]
    /\ UNCHANGED << store_vars, std_call, db_vars, save_call, window_vars >>

ImportNext == \E file \in ImportFiles, mapping \in ImportMappings : ImportCsv(file, mapping)

SpecImport == ParsersInit /\ [][ImportNext]_vars

(***************************************************************************)
(* The staging grid at work on one staged row.  The window has loaded a    *)
(* file of one line; the cells of the row are then edited through setData. *)
(* The edits are what the delegates hand over and, for the numeric         *)
(* columns, also texts that are not numbers.                               *)
(***************************************************************************)
s_x == << "x" >>
GridLines ==
    { BuyCells,
      [BuyCells EXCEPT ![2] = s_Sell],
      [BuyCells EXCEPT ![6] = << "1", "2" >>],
      \* a purchase without a symbol, and one without an account and a price
      [BuyCells EXCEPT ![3] = <<>>],
      [BuyCells EXCEPT ![5] = <<>>, ![7] = <<>>],
      \* a dividend without its amount and without an account
      << s_date1, s_Dividend, s_aapl, <<>>, <<>>, <<>>, <<>>, <<>>, <<>>, <<>> >>,
      \* an undated deposit without an account
      << s_soon, s_Deposit, <<>>, <<>>, <<>>, << "5" >>, <<>>, <<>>, <<>>, <<>> >>,
      \* a line of cells no parser accepts
      << s_soon, << "?" >>, <<>>, << "x" >>, << "y" >>, << "z" >>, <<>>, << "q" >>, <<>>,
         << "w" >> >> }
GridFiles ==
    {[path |-> << "i" >>,
      headers |-> {ImportHeaders[i] : i \in 1..Len(ImportHeaders)},
      rows |-> << DictRow(ImportHeaders, line) >>] : line \in GridLines}
\* The mappings the mapping dialog was left with, and the account picked in the
\* account dialog when no account column is mapped.
GridMappings ==
    { [mapping |-> AllColumns, override |-> NoneText],
      [mapping |-> Restrict(AllColumns, DOMAIN AllColumns \ {"instrument_type"}),
       override |-> NoneText],
      [mapping |-> Restrict(AllColumns, DOMAIN AllColumns \ {"account_name"}),
       override |-> s_IRA] }

GridEdits ==
    { [column |-> "account_name", value |-> Str(s_Roth)],
      [column |-> "account_name", value |-> Str(<< " " >>)],
      [column |-> "quantity", value |-> Dec(3)],
      [column |-> "quantity", value |-> NoneDec],
      [column |-> "quantity", value |-> Str(s_x)],
      [column |-> "price", value |-> NoneDec],
      [column |-> "price", value |-> Str(s_x)],
      [column |-> "fees", value |-> Dec(2)],
      [column |-> "fees", value |-> NoneDec],
      [column |-> "fees", value |-> Str(s_x)],
      [column |-> "amount", value |-> NoneDec],
      [column |-> "amount", value |-> Str(s_x)],
      [column |-> "symbol", value |-> Str(<<>>)] }

\* load_csv has staged the row of a file: the state of the window after
\* MappingAccept or AccountOk.
GridInit ==
    \E file \in GridFiles, m \in GridMappings :
        LET parsed == import_transactions_from_csv(file, m.mapping, _load_mappings(Missing, "ok")[1])
        IN  /\ DefaultStore
            /\ WindowStorageInit
            /\ transactions = apply_account_override(parsed.value, m.override)
            /\ has_model = TRUE
            /\ save_button = ~hasErrors(transactions)
            /\ discard_button = TRUE
            /\ dialog = NoDialog
            /\ filepath = file.path
            /\ column_mappings = m.mapping
            /\ account_name_override = m.override
            /\ message = "none"
            /\ last_edit = NoCall
            /\ last_commit = NoCall
            /\ import_start = NoCall
            /\ n_steps = 0

GridNext ==
    \E row \in 1..Len(transactions), edit \in GridEdits :
        SetData(row, edit.column, edit.value)

SpecGrid == GridInit /\ [][GridNext]_vars

(***************************************************************************)
(* The store lookup on its own: get_transaction_type on a store that the   *)
(* constructor loaded from one of LookupFiles.                             *)
(***************************************************************************)
s_MoneyLink_Transfer ==
    <<"M", "o", "n", "e", "y", "L", "i", "n", "k", " ", "T", "r", "a", "n", "s", "f", "e", "r">>
s_Cash_Transfer == <<"C", "a", "s", "h", " ", "T", "r", "a", "n", "s", "f", "e", "r">>

\* The default store after the type combo of the schwab row "MoneyLink Transfer" was
\* set to deposit (manage_mappings.py _on_type_changed keeps the key as shown).
RetypedStore ==
    [_init_default_mappings EXCEPT ![s_schwab] = BucketSet(@, s_MoneyLink_Transfer, "deposit")]

\* The default store after add_mapping gave schwab a rule for "bought to open",
\* stored behind the default rule for "bought", and one for "journal".
AddedStore ==
    add_mapping(add_mapping(_init_default_mappings, s_schwab, s_bought_to_open, "buy_to_open"),
                s_schwab, s_Journal, "transfer_out")

LookupFiles == {Missing, FileOf(RetypedStore), FileOf(AddedStore), FileOf(BareStore)}
LookupActions ==
    {s_bought_to_open, s_Journal, s_MoneyLink_Transfer, s_Cash_Transfer, s_Buy_to_Open,
     s__Wire_, s_unknown_garbage}
LookupBrokers == {NoneText, <<>>, s_Schwab, s_ibkr, s_acme}
LookupQuantities == {NoneDec, Dec(-5), Dec(5)}

LookupInit ==
    /\ \E file0 \in LookupFiles :
          /\ mappings = _load_mappings(file0, "ok")[1]
          /\ mapping_file = _load_mappings(file0, "ok")[2]
          /\ last_save = IF file0 = Missing THEN "ok" ELSE "none"
    /\ last_add = NoCall
    /\ std_call = NoCall
    /\ parse_call = NoCall
    /\ n_mut = 0
    /\ save_call = NoCall
    /\ EmptyStorage
    /\ WindowInit

\* One call of get_transaction_type on the loaded store.
GetTransactionType(action_text, broker, quantity) ==
    /\ parse_call = NoCall
    /\ parse_call' = [fn |-> "get_transaction_type", action_text |-> action_text,
                      broker |-> broker, quantity |-> quantity,
                      result |-> get_transaction_type(mappings, action_text, broker,
                                                      quantity)]
    /\ UNCHANGED << store_vars, std_call, db_vars, save_call, window_vars >>

LookupNext ==
    \E a \in LookupActions, b \in LookupBrokers, q \in LookupQuantities :
        GetTransactionType(a, b, q)

SpecLookup == LookupInit /\ [][LookupNext]_vars

(***************************************************************************)
(* column_mapper.py: the heuristics that propose a column mapping.  The    *)
(* headers of a file are a list of texts without repetition, a preview row *)
(* is a function from the headers to cell texts, and a mapping is a        *)
(* function from application fields to headers.                            *)
(***************************************************************************)
Range(f) == {f[x] : x \in DOMAIN f}
Max(S) == CHOOSE x \in S : \A y \in S : x >= y
EmptyMapping == [field \in {} |-> <<>>]
\* dict.update and the assignment m[field] = header.
Update(m, new) == new @@ m

\* Lines 374-385: common_patterns, in the order of the dict.
common_patterns ==
    << [field |-> "date",
        patterns |-> {<<"d", "a", "t", "e">>, <<"t", "r", "a", "n", "s", "a", "c", "t", "i", "o", "n", " ", "d", "a", "t", "e">>, <<"t", "r", "a", "d", "e", " ", "d", "a", "t", "e">>, <<"a", "c", "t", "i", "v", "i", "t", "y", " ", "d", "a", "t", "e">>,
                      <<"r", "u", "n", " ", "d", "a", "t", "e">>, <<"o", "p", "e", "n", " ", "d", "a", "t", "e">>}],
       [field |-> "symbol",
        patterns |-> {<<"s", "y", "m", "b", "o", "l">>, <<"t", "i", "c", "k", "e", "r">>, <<"s", "e", "c", "u", "r", "i", "t", "y">>, <<"s", "e", "c", "u", "r", "i", "t", "y", " ", "s", "y", "m", "b", "o", "l">>}],
       [field |-> "action",
        patterns |-> {<<"a", "c", "t", "i", "o", "n">>, <<"a", "c", "t", "i", "v", "i", "t", "y">>, <<"t", "r", "a", "n", "s", "a", "c", "t", "i", "o", "n", " ", "t", "y", "p", "e">>, <<"t", "y", "p", "e">>, <<"d", "e", "s", "c", "r", "i", "p", "t", "i", "o", "n">>}],
       [field |-> "quantity", patterns |-> {<<"q", "u", "a", "n", "t", "i", "t", "y">>, <<"q", "t", "y">>, <<"s", "h", "a", "r", "e", "s">>, <<"a", "m", "o", "u", "n", "t">>}],
       [field |-> "price",
        patterns |-> {<<"p", "r", "i", "c", "e">>, <<"p", "r", "i", "c", "e", " ", "(", "$", ")">>, <<"p", "r", "i", "c", "e", "/", "s", "h", "a", "r", "e">>, <<"s", "h", "a", "r", "e", " ", "p", "r", "i", "c", "e">>}],
       [field |-> "amount",
        patterns |-> {<<"a", "m", "o", "u", "n", "t">>, <<"a", "m", "o", "u", "n", "t", " ", "(", "$", ")">>, <<"v", "a", "l", "u", "e">>, <<"t", "o", "t", "a", "l">>, <<"n", "e", "t", " ", "a", "m", "o", "u", "n", "t">>,
                      <<"p", "r", "o", "c", "e", "e", "d", "s">>, <<"t", "o", "t", "a", "l", " ", "a", "m", "o", "u", "n", "t">>}],
       [field |-> "fees",
        patterns |-> {<<"f", "e", "e", "s">>, <<"c", "o", "m", "m", "i", "s", "s", "i", "o", "n">>, <<"f", "e", "e", "s", " ", "&", " ", "c", "o", "m", "m">>, <<"c", "o", "m", "m", "i", "s", "s", "i", "o", "n", " ", "(", "$", ")">>, <<"f", "e", "e", "s", " ", "(", "$", ")">>}],
       [field |-> "account_name", patterns |-> {<<"a", "c", "c", "o", "u", "n", "t">>, <<"a", "c", "c", "o", "u", "n", "t", " ", "n", "a", "m", "e">>, <<"a", "c", "c", "t">>}],
       [field |-> "instrument_type",
        patterns |-> {<<"i", "n", "s", "t", "r", "u", "m", "e", "n", "t", " ", "t", "y", "p", "e">>, <<"s", "e", "c", "u", "r", "i", "t", "y", " ", "t", "y", "p", "e">>, <<"a", "s", "s", "e", "t", " ", "c", "l", "a", "s", "s">>, <<"t", "y", "p", "e">>}],
       [field |-> "notes",
        patterns |-> {<<"n", "o", "t", "e", "s">>, <<"d", "e", "s", "c", "r", "i", "p", "t", "i", "o", "n">>, <<"c", "o", "m", "m", "e", "n", "t", "s">>, <<"m", "e", "m", "o">>, <<"m", "e", "m", "o", "_", "d", "e", "s", "c">>}] >>

\* Line 388
description_fields ==
    {<<"d", "e", "s", "c", "r", "i", "p", "t", "i", "o", "n">>, <<"t", "r", "a", "n", "s", "a", "c", "t", "i", "o", "n", " ", "d", "e", "s", "c", "r", "i", "p", "t", "i", "o", "n">>, <<"s", "e", "c", "u", "r", "i", "t", "y", " ", "d", "e", "s", "c", "r", "i", "p", "t", "i", "o", "n">>, <<"d", "e", "t", "a", "i", "l", "s">>}

\* any(pattern in header.lower() for pattern in patterns)
MatchesAny(header, patterns) ==
    LET In(header_lower) == \E pattern \in patterns : IsSubstr(pattern, header_lower)
    IN  In(SubSeq(Lower(header), 1, Len(header)))

\* Lines 390-395: the first header that looks like a description becomes the notes
\* column unless notes is mapped.
description_pass(csv_headers, m) ==
    LET at == {i \in 1..Len(csv_headers) : MatchesAny(csv_headers[i], description_fields)}
    IN  IF at # {} /\ "notes" \notin DOMAIN m
        THEN Update(m, "notes" :> csv_headers[Min(at)])
        ELSE m

\* Line 402: headers that look like metadata or instructions are skipped.
Eligible(header) == ~(header # <<>> /\ header[1] = "\"") /\ Len(header) <= 50

\* A pattern pass that maps every matching field, mapped or not.
pattern_step_Overwriting(header, m) ==
    LET fields == {k \in 1..Len(common_patterns) :
                      MatchesAny(header, common_patterns[k].patterns)}
    IN  IF Eligible(header) /\ fields # {}
        THEN Update(m, common_patterns[Min(fields)].field :> header)
        ELSE m
\* A pattern pass that gives a header to every unmapped field it matches.
pattern_step_EveryField(header, m) ==
    LET fields == {k \in 1..Len(common_patterns) :
                      /\ MatchesAny(header, common_patterns[k].patterns)
                      /\ common_patterns[k].field \notin DOMAIN m}
    IN  IF Eligible(header)
        THEN Update(m, [field \in {common_patterns[k].field : k \in fields} |-> header])
        ELSE m
\* Lines 399-411: one header of the pattern pass.  The fields are tried in the order
\* of common_patterns; the first one that matches the header and is not mapped gets
\* the header, and the header is done.
pattern_step(header, m) ==
    LET fields == {k \in 1..Len(common_patterns) :
                      /\ MatchesAny(header, common_patterns[k].patterns)
                      /\ common_patterns[k].field \notin DOMAIN m}
    IN  IF Eligible(header) /\ fields # {}
        THEN Update(m, common_patterns[Min(fields)].field :> header)
        ELSE m

\* Lines 398-411: the pattern pass over the headers in file order.
RECURSIVE pattern_pass(_, _, _)
pattern_pass(csv_headers, i, m) ==
    IF i > Len(csv_headers) THEN m
    ELSE pattern_pass(csv_headers, i + 1, pattern_step(csv_headers[i], m))

\* str.isalpha on the texts of the model, whose letters are the 26 of ASCII.
IsAlpha(s) == s # <<>> /\ \A i \in 1..Len(s) : s[i] \in DOMAIN LowerMap \cup DOMAIN UpperMap

\* Line 427: a cell that looks like a stock symbol.
LooksLikeSymbol(cell) == IsAlpha(Strip(cell)) /\ Len(Strip(cell)) \in 1..5

\* Lines 417-429: with an action column and no symbol column, the first unmapped
\* header with a preview cell that looks like a symbol becomes the symbol column.
symbol_from_preview(csv_headers, preview_data, m) ==
    LET at == {i \in 1..Len(csv_headers) :
                  /\ csv_headers[i] \notin Range(m)
                  /\ \E r \in 1..Len(preview_data) :
                        LooksLikeSymbol(preview_data[r][csv_headers[i]])}
    IN  IF "action" \in DOMAIN m /\ "symbol" \notin DOMAIN m /\ at # {}
        THEN Update(m, "symbol" :> csv_headers[Min(at)])
        ELSE m

\* Line 443
common_actions == {<<"b", "u", "y">>, <<"s", "e", "l", "l">>, <<"d", "i", "v", "i", "d", "e", "n", "d">>, <<"d", "e", "p", "o", "s", "i", "t">>, <<"w", "i", "t", "h", "d", "r", "a", "w", "a", "l">>}

\* Lines 432-446: with a date column and no action column, the first unmapped header
\* with a preview cell that names a common action becomes the action column.
action_from_preview(csv_headers, preview_data, m) ==
    LET at == {i \in 1..Len(csv_headers) :
                  /\ csv_headers[i] \notin Range(m)
                  /\ \E r \in 1..Len(preview_data) :
                        MatchesAny(preview_data[r][csv_headers[i]], common_actions)}
    IN  IF "date" \in DOMAIN m /\ "action" \notin DOMAIN m /\ at # {}
        THEN Update(m, "action" :> csv_headers[Min(at)])
        ELSE m

\* all(h in self.csv_headers for h in signature)
HasHeaders(csv_headers, signature) == signature \subseteq Range(csv_headers)

\* Lines 290-309: the Fidelity export.  The signature is four headers; seven are
\* written, and Description when there is no account column.
fidelity_format(csv_headers, m) ==
    LET updated == Update(m, [date |-> <<"R", "u", "n", " ", "D", "a", "t", "e">>, action |-> <<"A", "c", "t", "i", "o", "n">>,
                              symbol |-> <<"S", "y", "m", "b", "o", "l">>, amount |-> <<"A", "m", "o", "u", "n", "t", " ", "(", "$", ")">>,
                              quantity |-> <<"Q", "u", "a", "n", "t", "i", "t", "y">>, price |-> <<"P", "r", "i", "c", "e", " ", "(", "$", ")">>,
                              fees |-> <<"F", "e", "e", "s", " ", "(", "$", ")">>])
    IN  IF ~HasHeaders(csv_headers, {<<"R", "u", "n", " ", "D", "a", "t", "e">>, <<"A", "c", "t", "i", "o", "n">>, <<"S", "y", "m", "b", "o", "l">>, <<"A", "m", "o", "u", "n", "t", " ", "(", "$", ")">>})
        THEN m
        ELSE IF "account_name" \notin DOMAIN updated \/ updated["account_name"] = <<>>
        THEN Update(updated, "account_name" :> <<"D", "e", "s", "c", "r", "i", "p", "t", "i", "o", "n">>)
        ELSE updated

\* Lines 312-327: the TD Ameritrade or Schwab export.
schwab_format(csv_headers, m) ==
    IF HasHeaders(csv_headers, {<<"D", "a", "t", "e">>, <<"S", "y", "m", "b", "o", "l">>, <<"D", "e", "s", "c", "r", "i", "p", "t", "i", "o", "n">>, <<"Q", "u", "a", "n", "t", "i", "t", "y">>, <<"P", "r", "i", "c", "e">>,
                                <<"A", "m", "o", "u", "n", "t">>})
    THEN Update(m, [date |-> <<"D", "a", "t", "e">>, symbol |-> <<"S", "y", "m", "b", "o", "l">>, quantity |-> <<"Q", "u", "a", "n", "t", "i", "t", "y">>,
                    price |-> <<"P", "r", "i", "c", "e">>, amount |-> <<"A", "m", "o", "u", "n", "t">>, action |-> <<"D", "e", "s", "c", "r", "i", "p", "t", "i", "o", "n">>])
    ELSE m

\* Lines 330-344: the Robinhood export.
robinhood_format(csv_headers, m) ==
    IF HasHeaders(csv_headers, {<<"D", "a", "t", "e">>, <<"S", "y", "m", "b", "o", "l">>, <<"A", "c", "t", "i", "o", "n">>, <<"Q", "u", "a", "n", "t", "i", "t", "y">>, <<"P", "r", "i", "c", "e">>,
                                <<"F", "e", "e", "s", " ", "&", " ", "C", "o", "m", "m">>, <<"A", "m", "o", "u", "n", "t">>})
    THEN Update(m, [date |-> <<"D", "a", "t", "e">>, symbol |-> <<"S", "y", "m", "b", "o", "l">>, action |-> <<"A", "c", "t", "i", "o", "n">>,
                    quantity |-> <<"Q", "u", "a", "n", "t", "i", "t", "y">>, price |-> <<"P", "r", "i", "c", "e">>, fees |-> <<"F", "e", "e", "s", " ", "&", " ", "C", "o", "m", "m">>,
                    amount |-> <<"A", "m", "o", "u", "n", "t">>])
    ELSE m

\* Lines 363-369: every preview row, in order, gives the symbol to the first of its
\* columns whose cell looks like a symbol; a later row replaces what an earlier gave.
symbol_from_rows(csv_headers, preview_data, m) ==
    LET at(r) == {i \in 1..Len(csv_headers) :
                     LooksLikeSymbol(preview_data[r][csv_headers[i]])}
        rows == {r \in 1..Len(preview_data) : at(r) # {}}
    IN  IF rows = {} THEN m
        ELSE Update(m, "symbol" :> csv_headers[Min(at(Max(rows)))])

\* Lines 347-369: the lot details export.
lot_format(csv_headers, preview_data, m) ==
    LET updated == Update(m, [date |-> <<"O", "p", "e", "n", " ", "D", "a", "t", "e">>, quantity |-> <<"Q", "u", "a", "n", "t", "i", "t", "y">>,
                              price |-> <<"C", "o", "s", "t", "/", "S", "h", "a", "r", "e">>, amount |-> <<"M", "a", "r", "k", "e", "t", " ", "V", "a", "l", "u", "e">>])
    IN  IF ~HasHeaders(csv_headers, {<<"O", "p", "e", "n", " ", "D", "a", "t", "e">>, <<"Q", "u", "a", "n", "t", "i", "t", "y">>, <<"P", "r", "i", "c", "e">>, <<"C", "o", "s", "t", "/", "S", "h", "a", "r", "e">>,
                                     <<"M", "a", "r", "k", "e", "t", " ", "V", "a", "l", "u", "e">>, <<"H", "o", "l", "d", "i", "n", "g", " ", "P", "e", "r", "i", "o", "d">>})
        THEN m
        ELSE IF "symbol" \notin DOMAIN updated
        THEN symbol_from_rows(csv_headers, preview_data, updated)
        ELSE updated

\* _detect_special_formats: the four signatures in order.
detect_special_formats(csv_headers, preview_data, m) ==
    lot_format(csv_headers, preview_data,
               robinhood_format(csv_headers,
                                schwab_format(csv_headers, fidelity_format(csv_headers, m))))

\* _detect_column_patterns, run by the constructor of the dialog on an empty
\* mapping: the mapping after each of its steps.  Lines 448-478 look for options in
\* the preview and only write to the log.
detect_column_patterns(csv_headers, preview_data) ==
    LET Fingerprint(m) ==
            [after_action |-> m,
             column_mappings |-> detect_special_formats(csv_headers, preview_data, m)]
        Action(m) ==
            [after_symbol |-> m] @@ Fingerprint(action_from_preview(csv_headers, preview_data, m))
        Symbol(m) ==
            [after_patterns |-> m] @@ Action(symbol_from_preview(csv_headers, preview_data, m))
        Patterns(m) ==
            [after_description |-> m] @@ Symbol(pattern_pass(csv_headers, 1, m))
    IN  Patterns(description_pass(csv_headers, EmptyMapping))

(***************************************************************************)
(* The heuristics on their own: the constructor of ColumnMapperDialog on   *)
(* the headers and the preview rows that load_csv read from a file.        *)
(***************************************************************************)
h_Date == <<"D", "a", "t", "e">>
h_Memo == <<"M", "e", "m", "o">>
h_Amount == <<"A", "m", "o", "u", "n", "t">>
h_Net_Amount == <<"N", "e", "t", " ", "A", "m", "o", "u", "n", "t">>
h_Description == <<"D", "e", "s", "c", "r", "i", "p", "t", "i", "o", "n">>
\* A header that starts with a quote, and one of 51 characters.
h_Quoted == <<"\"", "T", "r", "a", "d", "e", " ", "d", "a", "t", "e">>
h_Long == <<"P", "r", "i", "c", "e">> \o [i \in 1..46 |-> "x"]
HeaderPool ==
    {h_Date, h_Memo, h_Amount, h_Net_Amount, h_Description, h_Quoted, h_Long}

\* The header lines of the exports that the fingerprints know, whole and cut down to
\* the columns of the signature.
FidelityHeaders ==
    <<<<"R", "u", "n", " ", "D", "a", "t", "e">>, <<"A", "c", "t", "i", "o", "n">>, <<"S", "y", "m", "b", "o", "l">>, <<"D", "e", "s", "c", "r", "i", "p", "t", "i", "o", "n">>, <<"Q", "u", "a", "n", "t", "i", "t", "y">>, <<"P", "r", "i", "c", "e", " ", "(", "$", ")">>,
      <<"F", "e", "e", "s", " ", "(", "$", ")">>, <<"A", "m", "o", "u", "n", "t", " ", "(", "$", ")">>>>
FidelitySignature == <<<<"R", "u", "n", " ", "D", "a", "t", "e">>, <<"A", "c", "t", "i", "o", "n">>, <<"S", "y", "m", "b", "o", "l">>, <<"A", "m", "o", "u", "n", "t", " ", "(", "$", ")">>>>
SchwabHeaders == <<<<"D", "a", "t", "e">>, <<"S", "y", "m", "b", "o", "l">>, <<"D", "e", "s", "c", "r", "i", "p", "t", "i", "o", "n">>, <<"Q", "u", "a", "n", "t", "i", "t", "y">>, <<"P", "r", "i", "c", "e">>, <<"A", "m", "o", "u", "n", "t">>>>
RobinhoodHeaders ==
    <<<<"D", "a", "t", "e">>, <<"S", "y", "m", "b", "o", "l">>, <<"A", "c", "t", "i", "o", "n">>, <<"Q", "u", "a", "n", "t", "i", "t", "y">>, <<"P", "r", "i", "c", "e">>, <<"F", "e", "e", "s", " ", "&", " ", "C", "o", "m", "m">>, <<"A", "m", "o", "u", "n", "t">>>>
LotHeaders ==
    <<<<"O", "p", "e", "n", " ", "D", "a", "t", "e">>, <<"Q", "u", "a", "n", "t", "i", "t", "y">>, <<"P", "r", "i", "c", "e">>, <<"C", "o", "s", "t", "/", "S", "h", "a", "r", "e">>, <<"M", "a", "r", "k", "e", "t", " ", "V", "a", "l", "u", "e">>, <<"H", "o", "l", "d", "i", "n", "g", " ", "P", "e", "r", "i", "o", "d">>>>
LotHeadersNamed == <<<<"N", "a", "m", "e">>>> \o LotHeaders

\* Lists of up to MaxHeaders headers of the pool, without repetition.
MaxHeaders == 3
HeaderLists ==
    {hs \in UNION {[1..n -> HeaderPool] : n \in 1..MaxHeaders} :
        \A i, j \in DOMAIN hs : i # j => hs[i] # hs[j]}
    \cup {FidelityHeaders, FidelitySignature, SchwabHeaders, RobinhoodHeaders, LotHeaders,
          LotHeadersNamed}

\* Preview rows: the cells of a row are a number, a padded symbol and an action, in
\* turn over the columns, starting one further on each row.
PreviewCells == <<<<"1", "0", "0">>, <<" ", "a", "a", "p", "l", " ">>, <<"S", "e", "l", "l", " ", "s", "h", "o", "r", "t">>>>
PreviewOf(csv_headers, n_rows, shift) ==
    [r \in 1..n_rows |->
        [header \in Range(csv_headers) |->
            PreviewCells[(((CHOOSE i \in DOMAIN csv_headers : csv_headers[i] = header)
                           + r + shift) % 3) + 1]]]
Previews(csv_headers) ==
    {PreviewOf(csv_headers, n_rows, shift) : n_rows \in 0..2, shift \in 0..2}

MapperInit ==
    /\ mappings = _init_default_mappings
    /\ mapping_file = FileOf(_init_default_mappings)
    /\ last_save = "none"
    /\ last_add = NoCall
    /\ std_call = NoCall
    /\ parse_call = NoCall
    /\ n_mut = 0
    /\ save_call = NoCall
    /\ EmptyStorage
    /\ WindowInit

\* ColumnMapperDialog(csv_headers, preview_data): the constructor keeps the headers
\* and the first five preview rows, starts from no mapping and, through _setup_ui,
\* runs _detect_column_patterns; lines 99-103 of _setup_ui then look every mapped
\* header up with csv_headers.index, which raises ValueError for a header that is
\* not in the list.
ColumnMapperDialog(csv_headers, preview_data) ==
    LET Shown(detected) ==
            [fn |-> "_detect_column_patterns", csv_headers |-> csv_headers,
             preview_data |-> preview_data,
             raised |-> IF Range(detected.column_mappings) \subseteq Range(csv_headers)
                        THEN "none" ELSE "ValueError"] @@ detected
    IN  /\ parse_call = NoCall
        /\ parse_call' = Shown(detect_column_patterns(csv_headers,
                                  SubSeq(preview_data, 1, Min({5, Len(preview_data)}))))
        /\ UNCHANGED << store_vars, std_call, db_vars, save_call, window_vars >>

MapperNext ==
    \E csv_headers \in HeaderLists : \E preview_data \in Previews(csv_headers) :
        ColumnMapperDialog(csv_headers, preview_data)

SpecMapper == MapperInit /\ [][MapperNext]_vars

(***************************************************************************)
(* The staging grid at work on two staged rows, up to the commit.  The     *)
(* window has loaded a file of two lines, with or without a column for the *)
(* amount; cells of the rows are edited through setData and the save       *)
(* button is pressed.                                                      *)
(***************************************************************************)
ExpiredCells ==
    << s_date1, s_Expired, s_occ_call, << "1" >>, << "5" >>, << "7" >>, s_IRA, s_option,
       <<>>, <<>> >>
EditFiles ==
    {[path |-> << "e" >>,
      headers |-> {ImportHeaders[i] : i \in 1..Len(ImportHeaders)},
      rows |-> [i \in 1..Len(lines) |-> DictRow(ImportHeaders, lines[i])]] :
        lines \in { << BuyCells, ExpiredCells >>,
                    << [BuyCells EXCEPT ![2] = s_Sell], BuyCells >> }}
EditMappings == {AllColumns, Restrict(AllColumns, DOMAIN AllColumns \ {"amount"})}

\* What the delegates hand to setData for the cells of a trade, and a text that is
\* no number.
TradeEdits ==
    { [column |-> "quantity", value |-> Dec(3)],
      [column |-> "price", value |-> NoneDec],
      [column |-> "fees", value |-> Dec(2)],
      [column |-> "transaction_type", value |-> Str(CodeText["sell"])],
      [column |-> "transaction_type", value |-> Str(CodeText["deposit"])],
      [column |-> "amount", value |-> Str(s_x)] }

\* load_csv has staged the rows of a file whose account column is mapped: the state
\* of the window after MappingAccept.
EditInit ==
    \E file \in EditFiles, mapping \in EditMappings :
        LET parsed == import_transactions_from_csv(file, mapping, _load_mappings(Missing, "ok")[1])
        IN  /\ DefaultStore
            /\ WindowStorageInit
            /\ transactions = apply_account_override(parsed.value, NoneText)
            /\ has_model = TRUE
            /\ save_button = ~hasErrors(transactions)
            /\ discard_button = TRUE
            /\ dialog = NoDialog
            /\ filepath = file.path
            /\ column_mappings = mapping
            /\ account_name_override = NoneText
            /\ message = "none"
            /\ last_edit = NoCall
            /\ last_commit = NoCall
            /\ import_start = [called |-> TRUE, db |-> Storage, created |-> {},
                               commit_requested |-> FALSE]
            /\ n_steps = 0

EditNext ==
    \/ \E row \in 1..Len(transactions), edit \in TradeEdits :
          SetData(row, edit.column, edit.value)
    \/ \E commit_ok \in BOOLEAN : SaveToDatabase(commit_ok)

SpecEdit == EditInit /\ [][EditNext]_vars

(***************************************************************************)
(* Properties of the standardizer (checked under SpecStd).                 *)
(***************************************************************************)
TransferCodes == {"transfer_in", "transfer_out"}

\* C6: every call of standardize_option_transaction_type returns one transaction-type
\* code and none raises, whatever the action, the is_option flag, the quantity, the
\* broker hint and the store hold.
C6_NeverRaises ==
    std_call.called => std_call.result \in TransactionTypeValues

\* C7: on the default store, an action that is one of the phrases of the fixed
\* option-phrase table, with is_option set, gives the code the table lists for it;
\* and "unknown garbage" without is_option gives OTHER.
C7_OptionPhraseTable ==
    (std_call.called /\ mappings = _init_default_mappings) =>
        /\ \A i \in 1..Len(option_action_mapping) :
              (std_call.is_option
                  /\ Strip(Lower(std_call.action_str)) = option_action_mapping[i].k)
              => std_call.result = option_action_mapping[i].v
        /\ (std_call.action_str = s_unknown_garbage /\ ~std_call.is_option)
              => std_call.result = "other"

\* C8: a call that resolves to a transfer code with a known quantity returns
\* TRANSFER_OUT when the quantity is negative and TRANSFER_IN otherwise, whatever
\* the store, the broker and the direction the matching entry names.
C8_TransferDirectionBySign ==
    (std_call.called /\ std_call.result \in TransferCodes
        /\ std_call.quantity # NoneDec) =>
        /\ std_call.quantity # NaN
        /\ std_call.result =
              (IF std_call.quantity.dec < 0 THEN "transfer_out" ELSE "transfer_in")

\* C8 witness: the broker bucket's entry names TRANSFER_OUT, the quantity is
\* positive, and the call returned TRANSFER_IN.
C8_Witness ==
    /\ std_call.called
    /\ std_call.broker = s_fidelity
    /\ std_call.quantity = Dec(5)
    /\ LookupResult(mappings, Strip(Lower(std_call.action_str)), std_call.broker)
          = "transfer_out"
    /\ std_call.result = "transfer_in"

ThroughEntry(t, q) ==
    IF t \in TransferCodes /\ q # NoneDec
    THEN IF q = NaN THEN InvalidOperation
         ELSE IF q.dec < 0 THEN "transfer_out" ELSE "transfer_in"
    ELSE t

\* A key stored before `key` in the bucket (or in a bucket without `key`) occurs
\* in `key` as a substring.
Shadowed(bucket, key) ==
    \E i \in 1..Len(bucket) :
        /\ IsSubstr(bucket[i].k, key)
        /\ \A j \in 1..i : bucket[j].k # key

\* C10 as stated: after add_mapping(broker, action_text, type), standardizing that
\* action text with that broker as hint returns the added type, up to the
\* transfer-direction override by the sign of the quantity.
C10_AddedRuleWins ==
    (last_add.called /\ last_add.transaction_type \in TransactionTypeValues) =>
        \A o \in BOOLEAN, q \in StdQuantities \ {NaN} :
            standardize_option_transaction_type(
                mappings, last_add.action_text, o, q, last_add.broker)
            = ThroughEntry(last_add.transaction_type, q)

\* C10 as amended: the same, provided no key stored earlier in the broker's bucket
\* is a substring of the action text.
C10_AddedRuleWinsUnlessShadowed ==
    (last_add.called /\ last_add.transaction_type \in TransactionTypeValues
        /\ ~Shadowed(mappings[last_add.broker], Lower(last_add.action_text))) =>
        \A o \in BOOLEAN, q \in StdQuantities :
            standardize_option_transaction_type(
                mappings, last_add.action_text, o, q, last_add.broker)
            = ThroughEntry(last_add.transaction_type, q)

\* C10 witness: an added rule that is not shadowed and changes what the defaults
\* gave for its action text.
C10_Witness ==
    /\ last_add.called
    /\ last_add.transaction_type \in TransactionTypeValues
    /\ ~Shadowed(mappings[last_add.broker], Lower(last_add.action_text))
    /\ standardize_option_transaction_type(
           _init_default_mappings, last_add.action_text, FALSE, NoneDec, last_add.broker)
       # last_add.transaction_type
    /\ standardize_option_transaction_type(
           mappings, last_add.action_text, FALSE, NoneDec, last_add.broker)
       = last_add.transaction_type

(***************************************************************************)
(* Claims on save_transactions (SpecSave).                                 *)
(***************************************************************************)
\* The transactions the latest call added to the table.
WrittenRows ==
    SubSeq(db_transactions, Len(save_call.before.transactions) + 1, Len(db_transactions))

\* tx is the transaction built from row t.
WrittenFrom(tx, t) ==
    /\ tx.notes = GetText(t.notes)
    /\ tx.account = t.account_name
    /\ tx.transaction_type = t.transaction_type
    /\ tx.transaction_date = t.transaction_date
    /\ tx.amount = t.amount

\* The written transactions are those of the rows of `expected`, in order.
WrittenExactly(expected) ==
    /\ Len(WrittenRows) = Len(expected)
    /\ \A k \in 1..Len(expected) : WrittenFrom(WrittenRows[k], expected[k])

ErrorFree(t) == t.errors = <<>>

\* The row's symbol is one get_or_create_symbol raises ValueError for.
SymbolUnresolvable(t) ==
    /\ TruthyText(t.symbol)
    /\ SymbolInstrumentType(t) = "option"
    /\ StrikeOf(Get(t.strike_price)) = NotADecimal

UnknownAccount(call) ==
    \E i \in 1..Len(call.rows) :
        ErrorFree(call.rows[i]) /\ call.rows[i].account_name \notin call.before.accounts

\* An error-free row with a resolvable symbol lacks a value the table requires.
LacksRequired(call) ==
    \E i \in 1..Len(call.rows) :
        LET t == call.rows[i]
        IN  /\ ErrorFree(t)
            /\ ~SymbolUnresolvable(t)
            /\ \/ ~HasTransactionKeys(t)
               \/ ~TransactionInsertable(NewTransaction(t, NoneDec))
               \/ TruthyText(t.symbol) /\ SymbolInstrumentType(t) \notin InstrumentTypeValues

MixedBatch(rows) ==
    /\ \E i \in 1..Len(rows) : rows[i].errors # <<>>
    /\ \E i \in 1..Len(rows) : rows[i].errors = <<>>

\* The transactions the latest commit request of the window added to the table.
CommittedRows ==
    SubSeq(last_commit.after.transactions, Len(last_commit.before.transactions) + 1,
           Len(last_commit.after.transactions))

C4_SaveEnabledIffNoErrors ==
    has_model => (save_button <=> ~hasErrors(transactions))

\* C5 as stated: from the start of an import until a commit is requested, the
\* stored accounts, symbols and transactions are those present at the start.
C5_NothingWrittenBeforeCommit ==
    (import_start # NoCall /\ ~import_start.commit_requested)
        => Storage = import_start.db

\* C5, amended: from the start of an import until a commit is requested, the
\* stored symbols and transactions are those present at the start, and the stored
\* accounts are those present at the start and the accounts the user created in the
\* account dialog of this import.
C5_OnlyNewAccountsBeforeCommit ==
    (import_start # NoCall /\ ~import_start.commit_requested)
        => /\ db_symbols = import_start.db.symbols
           /\ db_transactions = import_start.db.transactions
           /\ db_accounts = import_start.db.accounts \cup import_start.created

\* An import created an account in the account dialog, staged its rows under that
\* account, and no commit was requested.
C5_Witness ==
    /\ import_start # NoCall
    /\ ~import_start.commit_requested
    /\ import_start.created # {}
    /\ transactions # <<>>
    /\ account_name_override \in import_start.created
    /\ account_name_override \notin import_start.db.accounts

(***************************************************************************)
(* Claims on parse_date (SpecDate).                                        *)
(***************************************************************************)
DateCall == parse_call # NoCall /\ parse_call.fn = "parse_date"

\* C16 as stated: a valid date written in ISO, US or European form parses to the
\* date that was written, and with an "as of" part the result is the as-of date.
C16_DateRoundTripsAndAsOfWins ==
    DateCall => parse_call.result = (IF parse_call.as_of = NoneDec
                                     THEN parse_call.written.date
                                     ELSE parse_call.as_of.date)

\* What parse_date makes of a written date: the date itself in ISO or US form; in
\* European form the date itself when the day is above 12 or equals the month,
\* else the date with month and day exchanged; nothing for a two-digit year.
ReadAs(w) ==
    CASE w.form \in {"ISO", "US"} -> w.date
      [] w.form = "EU" -> IF w.date.d > 12 THEN w.date
                          ELSE Date(w.date.y, w.date.d, w.date.m)
      [] w.form = "US short" -> NoneDec

\* C16, amended: parse_date returns the date written for the ISO and US forms, and
\* for the European form when its day is above 12; a European date whose day is at
\* most 12 is read as month/day/year.  With an "as of" part the result is decided
\* by the as-of date alone, read the same way, and the primary date plays no part;
\* an as-of date with a two-digit year gives no date.
C16_DateReadUSFirstAndAsOfWins ==
    DateCall => parse_call.result = (IF parse_call.as_of = NoneDec
                                     THEN ReadAs(parse_call.written)
                                     ELSE ReadAs(parse_call.as_of))

\* A European date with an "as of" part in European form was parsed: the result is
\* the as-of date and not the primary date.
C16_Witness ==
    /\ DateCall
    /\ parse_call.written.form = "EU"
    /\ parse_call.as_of # NoneDec
    /\ parse_call.as_of.form = "EU"
    /\ parse_call.result = parse_call.as_of.date
    /\ parse_call.result # parse_call.written.date

(***************************************************************************)
(* Claims on parse_option_details (SpecOption).                            *)
(***************************************************************************)
OptionCall == parse_call # NoCall /\ parse_call.fn = "parse_option_details"

\* No step of the parse can name a type: the symbol is not in the OCC form, the
\* description holds neither "call" nor "put" in any case, and no piece of the
\* symbol is C, P, CALL or PUT in any case.
NoTypeInTexts(symbol, description) ==
    /\ ~occ_match(symbol)
    /\ ~TruthyText(description) \/ (/\ ~IsSubstr(s_call, Lower(description))
                                    /\ ~IsSubstr(s_put, Lower(description)))
    /\ \A i \in 1..Len(SplitBlank(symbol)) :
          Upper(SplitBlank(symbol)[i]) \notin {<< "C" >>, << "P" >>, s_CALL, s_PUT}

\* C15: whenever parse_option_details reports is_option true, option_type is CALL
\* or PUT, and it is CALL when no step of the parse could determine a type.
C15_OptionHasOptionType ==
    OptionCall /\ parse_call.result.is_option
        => /\ parse_call.result.option_type \in {Enum("call"), Enum("put")}
           /\ NoTypeInTexts(parse_call.symbol, parse_call.description)
                 => parse_call.result.option_type = Enum("call")

\* An option was detected from texts that name no type, and it is a call.
C15_Witness ==
    /\ OptionCall
    /\ parse_call.result.is_option
    /\ NoTypeInTexts(parse_call.symbol, parse_call.description)
    /\ parse_call.result.option_type = Enum("call")

(***************************************************************************)
(* Claims on import_transactions_from_csv (SpecImport).                    *)
(***************************************************************************)
ImportCall == parse_call # NoCall /\ parse_call.fn = "import_transactions_from_csv"
ImportReturned == ImportCall /\ parse_call.result.raised = "none"

\* C11 as stated: when every mapped column is a header of the file, the call
\* returns one candidate per data row, in file order, whatever the cells hold.
C11_OneCandidatePerRow ==
    ImportCall /\ MappedColumnsExist(parse_call.file.headers, parse_call.mapping)
        => /\ parse_call.result.raised = "none"
           /\ Len(parse_call.result.value) = Len(parse_call.file.rows)
           /\ \A i \in 1..Len(parse_call.file.rows) :
                 parse_call.result.value[i].row_num = i + 1

\* The candidates of the call together with the rows they were made from.
Candidates ==
    IF ImportReturned
    THEN {[c |-> parse_call.result.value[i], row |-> parse_call.file.rows[i]] :
             i \in 1..Len(parse_call.file.rows)}
    ELSE {}
MappedCell(row, field) ==
    IF Mapped(parse_call.mapping, field, row) THEN Cell(parse_call.mapping, field, row)
    ELSE NoneText
\* The amount cell of the row as a Decimal, None when it is unmapped, empty or
\* not a number.
ExplicitAmount(row) == parse_decimal(MappedCell(row, "amount"))
IsExpiredRow(row) ==
    /\ Mapped(parse_call.mapping, "action", row)
    /\ \/ IsSubstr(s_expir, Lower(MappedCell(row, "action")))
       \/ IsSubstr(s_worthless, Lower(MappedCell(row, "action")))
\* quantity x price + fees for a purchase and - fees for a sale, None when the
\* candidate is not a purchase or a sale or lacks the quantity or the price.
TradeAmount(c) ==
    IF c.transaction_type \notin {"buy", "sell"} \/ Get(c.quantity) = NoneDec
           \/ Get(c.price) = NoneDec
    THEN NoneDec
    ELSE IF Get(c.fees) = NoneDec THEN DecMul(c.quantity, c.price)
    ELSE IF c.transaction_type = "buy" THEN DecAdd(DecMul(c.quantity, c.price), c.fees)
    ELSE DecSub(DecMul(c.quantity, c.price), c.fees)
AmountError == Err("Cannot determine transaction amount", <<>>)
HasError(c, e) == \E i \in 1..Len(c.errors) : c.errors[i] = e

\* C13 as stated: the amount of a candidate is the value of the mapped amount
\* column or, for BUY and SELL only, quantity x price +/- fees; a candidate of
\* another type without an explicit amount has no amount and carries an error.
C13_AmountExplicitOrComputed ==
    \A x \in Candidates :
        /\ x.c.amount # Absent =>
              x.c.amount \in {ExplicitAmount(x.row), TradeAmount(x.c)}
        /\ x.c.transaction_type \notin {"buy", "sell"} /\ ExplicitAmount(x.row) = NoneDec
              => x.c.amount = Absent /\ x.c.errors # <<>>

\* C13, amended: the amount is the value of the mapped amount column when that
\* parses; else 0 for a row whose action text contains "expir" or "worthless",
\* without any error; else quantity x price +/- fees for BUY and SELL with a
\* quantity and a price; else the candidate has no amount, and when it has a
\* transaction type it carries the error "Cannot determine transaction amount".
C13_AmountExplicitExpiredOrComputed ==
    \A x \in Candidates :
        IF ExplicitAmount(x.row) # NoneDec THEN x.c.amount = ExplicitAmount(x.row)
        ELSE IF IsExpiredRow(x.row)
        THEN x.c.amount = Dec(0) /\ ~HasError(x.c, AmountError)
        ELSE IF TradeAmount(x.c) # NoneDec THEN x.c.amount = TradeAmount(x.c)
        ELSE /\ x.c.amount = Absent
             /\ x.c.transaction_type # AbsentCode => HasError(x.c, AmountError)

\* A dividend without an amount was parsed: it has no amount and carries the error;
\* and in the same file a sale got its computed amount, the fees taken off.
C13_Witness ==
    /\ \E x \in Candidates :
          /\ x.c.transaction_type = "dividend"
          /\ x.c.amount = Absent
          /\ HasError(x.c, AmountError)
    /\ \E x \in Candidates :
          /\ x.c.transaction_type = "sell"
          /\ ExplicitAmount(x.row) = NoneDec
          /\ x.c.amount = Dec(9)

StrippedCell(row, field) ==
    IF Mapped(parse_call.mapping, field, row)
    THEN Strip(Cell(parse_call.mapping, field, row)) ELSE <<>>
\* What the option parser makes of the symbol and the notes of a row.
Detected(row) ==
    parse_option_details(Upper(StrippedCell(row, "symbol")), StrippedCell(row, "notes"))

\* C20 as stated: when the option parser detects an option from the symbol or the
\* notes of a row, the candidate has instrument_type OPTION, the parsed ticker as
\* its symbol and the option type, expiration and strike of the parse, whether or
\* not an instrument_type column is mapped.
C20_DetectedOptionIsOption ==
    \A x \in Candidates :
        Detected(x.row).is_option =>
            /\ x.c.instrument_type = "option"
            /\ x.c.symbol = Detected(x.row).ticker
            /\ x.c.option_type = Detected(x.row).option_type
            /\ x.c.expiration_date = Detected(x.row).expiration_date
            /\ x.c.strike_price = Detected(x.row).strike_price

(***************************************************************************)
(* Claims on the edits of the staging grid (SpecGrid).                     *)
(***************************************************************************)
Edited == last_edit # NoCall
Accepted == Edited /\ last_edit.ret
ErrorsOf(data) == {data.errors[i] : i \in 1..Len(data.errors)}

\* The errors that mention the account name: the two of the row parser and the one
\* of the grid.
IsAccountError(e) ==
    e.msg \in {"Account name is required but not mapped", "Account name is empty",
               "Account name is required"}
\* The messages of _validate_row.
GridMessages ==
    {"Date is required", "Transaction type is required", "Account name is required",
     "Symbol is required for this transaction type",
     "Instrument type is required when symbol is provided",
     "Quantity is required for buy/sell transactions",
     "Price is required for buy/sell transactions",
     "Amount is required for all transactions"}

\* An accepted edit has set account_name to a non-blank text on a row that carried
\* an account-name error and another error.
AccountCorrected ==
    /\ Accepted
    /\ last_edit.column = "account_name"
    /\ Strip(last_edit.value.str) # <<>>
    /\ \E e \in ErrorsOf(last_edit.before) : IsAccountError(e)
    /\ \E e \in ErrorsOf(last_edit.before) : ~IsAccountError(e)

\* C12 as stated: such an edit removes exactly the account-name error: the other
\* errors of the row are all still there and no error is added.
C12_OnlyAccountErrorRemoved ==
    AccountCorrected =>
        last_edit.after.errors =
            SelectSeq(last_edit.before.errors, LAMBDA e : ~IsAccountError(e))

\* C12, amended: such an edit leaves no account-name error on the row; of the other
\* errors the row had, exactly those stay that carry a message of the grid's own
\* validation; the errors only the row parser or a refused edit wrote are dropped,
\* and every error the row has afterwards is one the validation wrote.
C12_AccountErrorRemovedAndRowRevalidated ==
    AccountCorrected =>
        /\ \A e \in ErrorsOf(last_edit.after) : ~IsAccountError(e) /\ e.msg \in GridMessages
        /\ \A e \in ErrorsOf(last_edit.before) :
              ~IsAccountError(e) => (e \in ErrorsOf(last_edit.after) <=> e.msg \in GridMessages)

\* The account of a row with an account-name error and a refused date text was
\* corrected: the parser's error on the date is gone and an error that the row did
\* not have before is there.
C12_Witness ==
    /\ AccountCorrected
    /\ \E e \in ErrorsOf(last_edit.before) :
          e.msg = "Invalid date format: " /\ e \notin ErrorsOf(last_edit.after)
    /\ \E e \in ErrorsOf(last_edit.after) : e \notin ErrorsOf(last_edit.before)

\* An accepted edit of quantity, price or fees on a BUY or SELL row.
TradeEdited ==
    /\ Accepted
    /\ last_edit.column \in {"quantity", "price", "fees"}
    /\ last_edit.before.transaction_type \in {"buy", "sell"}

\* C14 as stated: after such an edit the amount of the row is quantity x price
\* + fees (BUY) or - fees (SELL) of the row's new values, whatever the edit set,
\* the clearing of the field included.
C14_AmountRecomputedAlways ==
    TradeEdited => Get(last_edit.after.amount) = TradeAmount(last_edit.after)

\* C14, amended: after such an edit the amount is quantity x price + fees (BUY) or
\* - fees (SELL) of the new values when the row has a quantity and a price (fees
\* that were cleared count as none); when the edit leaves the row without a
\* quantity or without a price, the amount stays what it was before the edit.
C14_AmountRecomputedWhenComputable ==
    TradeEdited =>
        last_edit.after.amount = IF TradeAmount(last_edit.after) # NoneDec
                                 THEN TradeAmount(last_edit.after)
                                 ELSE last_edit.before.amount

\* The quantity of a purchase of 2 at 5 with fees 1 was set to 3: the amount went
\* from 11 to 16.
C14_Witness ==
    /\ TradeEdited
    /\ last_edit.column = "quantity"
    /\ last_edit.value = Dec(3)
    /\ last_edit.before.transaction_type = "buy"
    /\ last_edit.before.amount = Dec(11)
    /\ last_edit.after.amount = Dec(16)

\* The required-field checks of the row parser (csv_import.py, lines 54-63, 171-178
\* and 232-246) on the values of a staged row: a date, a non-empty account, for BUY
\* and SELL a quantity and a price, for DEPOSIT, WITHDRAWAL and FEE an amount, and
\* for every row with a type some entry for the amount.
ParserChecksPass(data) ==
    /\ Get(data.transaction_date) # NoneDec
    /\ TruthyText(data.account_name)
    /\ data.transaction_type \in {"buy", "sell"}
          => Get(data.quantity) # NoneDec /\ Get(data.price) # NoneDec
    /\ data.transaction_type \in {"deposit", "withdrawal", "fee"}
          => Get(data.amount) # NoneDec
    /\ data.transaction_type # AbsentCode => data.amount # Absent

\* C17 as stated: after every accepted edit the row is VALID exactly when the
\* required-field checks of the row parser find no error in the row's values.
C17_ValidIffParserChecksPass ==
    Accepted => (last_edit.after.errors = <<>> <=> ParserChecksPass(last_edit.after))

\* What the grid asks for beyond the parser: a transaction type, an account name
\* that is not blank, a symbol and an instrument type on BUY, SELL, DIVIDEND and
\* SPLIT, and an amount on every row with a type.
GridChecksPass(data) ==
    /\ GetCode(data.transaction_type) # None
    /\ Strip(data.account_name) # <<>>
    /\ data.transaction_type \in {"buy", "sell", "dividend", "split"}
          => TruthyText(data.symbol) /\ GetCode(data.instrument_type) # None
    /\ Get(data.amount) # NoneDec

\* C17, amended: after every accepted edit the error list of the row holds only
\* what the grid's validation finds in the row's current values, whatever the row
\* carried before; the row is VALID exactly when the required-field checks of the
\* parser pass and, beyond them, the checks of the grid alone.
C17_ValidIffGridChecksPass ==
    Accepted =>
        /\ last_edit.after.errors = validation_errors(last_edit.after)
        /\ last_edit.after.errors = <<>>
              <=> ParserChecksPass(last_edit.after) /\ GridChecksPass(last_edit.after)

\* An accepted edit on a row that carried the error of a refused edit of the price
\* made the row VALID.
C17_Witness ==
    /\ Accepted
    /\ \E e \in ErrorsOf(last_edit.before) : e.msg = "Invalid number for price: "
    /\ last_edit.after.errors = <<>>

\* A numeric cell was edited with a text that is not a number.
MalformedNumber ==
    /\ Edited
    /\ last_edit.column \in {"quantity", "price", "fees", "amount"}
    /\ IsStr(last_edit.value)
    /\ last_edit.value.str # <<>>
    /\ DecimalOf(last_edit.value.str) = NotADecimal

LookupCall == parse_call # NoCall /\ parse_call.fn = "get_transaction_type"

\* The bucket the broker hint names, empty when it names none.
HintedBucket ==
    IF TruthyText(parse_call.broker) /\ Lower(parse_call.broker) \in DOMAIN mappings
    THEN mappings[Lower(parse_call.broker)] ELSE <<>>
GeneralBucket == IF s_general \in DOMAIN mappings THEN mappings[s_general] ELSE <<>>

\* The entries whose key, as stored, occurs in the lowercased action, and those
\* whose key occurs in it when the case of the key is ignored too.
HitsAsStored(bucket) ==
    {i \in 1..Len(bucket) : IsSubstr(bucket[i].k, Lower(parse_call.action_text))}
HitsAnyCase(bucket) ==
    {i \in 1..Len(bucket) : IsSubstr(Lower(bucket[i].k), Lower(parse_call.action_text))}

\* The entry with the stored value `value` decided the result of the call.
DecidedBy(value) ==
    parse_call.result = IF ThroughEntry(value, parse_call.quantity) \in TransactionTypeValues
                        THEN ThroughEntry(value, parse_call.quantity) ELSE None

\* C21 as stated: the first key of the hinted bucket that occurs in the action,
\* compared without regard to case, decides the result whatever the general bucket
\* holds.
C21_BrokerKeyAnyCaseDecides ==
    LookupCall /\ HitsAnyCase(HintedBucket) # {}
        => DecidedBy(HintedBucket[Min(HitsAnyCase(HintedBucket))].v)

\* C21 amended: the keys are compared as stored with the lowercased action.  The
\* first such key of the hinted bucket decides; the general bucket is scanned the
\* same way only when the hinted bucket has no such key; else the result is None.
C21_BrokerKeyAsStoredDecides ==
    LookupCall =>
        IF HitsAsStored(HintedBucket) # {}
        THEN DecidedBy(HintedBucket[Min(HitsAsStored(HintedBucket))].v)
        ELSE IF HitsAsStored(GeneralBucket) # {}
        THEN DecidedBy(GeneralBucket[Min(HitsAsStored(GeneralBucket))].v)
        ELSE parse_call.result = None

\* A call where the hinted bucket and the general bucket both match, with different
\* types, and the type of the hinted bucket is returned.
C21_Witness ==
    /\ LookupCall
    /\ parse_call.quantity = NoneDec
    /\ HitsAsStored(HintedBucket) # {}
    /\ HitsAsStored(GeneralBucket) # {}
    /\ HintedBucket[Min(HitsAsStored(HintedBucket))].v
           # GeneralBucket[Min(HitsAsStored(GeneralBucket))].v
    /\ parse_call.result = HintedBucket[Min(HitsAsStored(HintedBucket))].v

(***************************************************************************)
(* Claims about the column mapping heuristics.                             *)
(***************************************************************************)
MapperCall == "fn" \in DOMAIN parse_call /\ parse_call.fn = "_detect_column_patterns"

\* The places in the header list of the eligible headers that match the patterns of
\* the k-th field of common_patterns.
HeaderMatches(csv_headers, k) ==
    {i \in 1..Len(csv_headers) :
        Eligible(csv_headers[i]) /\ MatchesAny(csv_headers[i], common_patterns[k].patterns)}

\* The pattern pass gave the header at place i to a field before the k-th.
GivenBefore(call, i, k) ==
    \E j \in 1..(k - 1) :
        /\ common_patterns[j].field \notin DOMAIN call.after_description
        /\ common_patterns[j].field \in DOMAIN call.after_patterns
        /\ call.after_patterns[common_patterns[j].field] = call.csv_headers[i]

FreeMatches(call, k) ==
    {i \in HeaderMatches(call.csv_headers, k) : ~GivenBefore(call, i, k)}

\* C22 as stated: after the pattern pass, a field that no earlier step mapped and
\* that some eligible header matches is mapped to the first such header in file order.
C22_FirstMatchingHeaderWins ==
    MapperCall =>
        \A k \in 1..Len(common_patterns) :
            (/\ common_patterns[k].field \notin DOMAIN parse_call.after_description
             /\ HeaderMatches(parse_call.csv_headers, k) # {})
            => /\ common_patterns[k].field \in DOMAIN parse_call.after_patterns
               /\ parse_call.after_patterns[common_patterns[k].field]
                     = parse_call.csv_headers[Min(HeaderMatches(parse_call.csv_headers, k))]

\* C22: after the pattern pass, a field that no earlier step mapped is mapped to the
\* first header in file order that is eligible, matches the field's patterns and was
\* not given by the pass to a field earlier in the pattern table; it is unmapped when
\* there is no such header.
C22_FirstFreeMatchingHeaderWins ==
    MapperCall =>
        \A k \in 1..Len(common_patterns) :
            common_patterns[k].field \notin DOMAIN parse_call.after_description
            => IF FreeMatches(parse_call, k) = {}
               THEN common_patterns[k].field \notin DOMAIN parse_call.after_patterns
               ELSE /\ common_patterns[k].field \in DOMAIN parse_call.after_patterns
                    /\ parse_call.after_patterns[common_patterns[k].field]
                          = parse_call.csv_headers[Min(FreeMatches(parse_call, k))]

\* A call where the first header that matches a field went to a field earlier in
\* the table and the field got a later header.
C22_Witness ==
    /\ MapperCall
    /\ \E k \in 1..Len(common_patterns) :
          /\ common_patterns[k].field \notin DOMAIN parse_call.after_description
          /\ FreeMatches(parse_call, k) # {}
          /\ Min(FreeMatches(parse_call, k)) # Min(HeaderMatches(parse_call.csv_headers, k))
          /\ parse_call.after_patterns[common_patterns[k].field]
                = parse_call.csv_headers[Min(FreeMatches(parse_call, k))]

\* Every field that m maps, bigger maps to the same header.
Keeps(m, bigger) == \A field \in DOMAIN m : field \in DOMAIN bigger /\ bigger[field] = m[field]

\* One of the four signatures of _detect_special_formats is in the header list.
FingerprintMatches(csv_headers) ==
    \/ HasHeaders(csv_headers, Range(FidelitySignature))
    \/ HasHeaders(csv_headers, Range(SchwabHeaders))
    \/ HasHeaders(csv_headers, Range(RobinhoodHeaders))
    \/ HasHeaders(csv_headers, Range(LotHeaders))

\* C23: a field mapped by the description pass, the pattern pass, the symbol pass or
\* the action pass keeps its header through every later one of these passes, and
\* through the fingerprint pass unless a fingerprint matches the header list.
C23_OnlyFingerprintOverwrites ==
    MapperCall =>
        /\ Keeps(parse_call.after_description, parse_call.after_patterns)
        /\ Keeps(parse_call.after_patterns, parse_call.after_symbol)
        /\ Keeps(parse_call.after_symbol, parse_call.after_action)
        /\ ~FingerprintMatches(parse_call.csv_headers)
              => Keeps(parse_call.after_action, parse_call.column_mappings)

\* A call where the description pass mapped notes, another eligible header matches
\* the notes patterns too, and notes has the header of the description pass after
\* the action pass.
C23_Witness ==
    /\ MapperCall
    /\ "notes" \in DOMAIN parse_call.after_description
    /\ \E i \in 1..Len(parse_call.csv_headers) :
          /\ parse_call.csv_headers[i] # parse_call.after_description["notes"]
          /\ Eligible(parse_call.csv_headers[i])
          /\ MatchesAny(parse_call.csv_headers[i], common_patterns[10].patterns)
    /\ parse_call.after_action["notes"] = parse_call.after_description["notes"]

\* C25 as stated: every header of the proposed mapping is in the header list.
C25_MappedHeadersExist ==
    MapperCall => Range(parse_call.column_mappings) \subseteq Range(parse_call.csv_headers)

(***************************************************************************)
(* Claims about the life of the staged rows.                               *)
(***************************************************************************)
\* Nothing is staged and neither button can be pressed.
StagingCleared == transactions = <<>> /\ ~save_button /\ ~discard_button

\* C24: a discard request and a commit request that succeeds leave no staged row and
\* both buttons disabled; a commit request that fails, is refused or finds nothing
\* staged leaves the staged rows, with their values and their error lists, and the
\* buttons as they were.
C24_StagedUntilDiscardOrCommit ==
    [][/\ Discard => StagingCleared'
       /\ (\E commit_ok \in BOOLEAN : SaveToDatabase(commit_ok))
             => IF last_commit'.outcome = "saved"
                THEN StagingCleared'
                ELSE UNCHANGED << transactions, has_model, save_button, discard_button >>]_vars

\* The state after a commit request that failed in the database: the rows it was
\* asked to write are still staged and both buttons are still enabled.
C24_Witness ==
    /\ last_commit.called
    /\ last_commit.outcome = "failed"
    /\ transactions = last_commit.rows
    /\ transactions # <<>>
    /\ save_button
    /\ discard_button
    /\ message = "Failed to save transactions"

\* The row has what the transaction record requires: a date, a type, an account
\* name that is not blank and an amount.
HasRequiredFields(data) ==
    /\ Get(data.transaction_date) # NoneDec
    /\ GetCode(data.transaction_type) # None
    /\ TruthyText(data.account_name) /\ Strip(data.account_name) # <<>>
    /\ Get(data.amount) # NoneDec

\* C26: in every state of the staging grid, after the load and after every accepted
\* or refused edit, every staged row with an empty error list has a date, a type, a
\* non-blank account name and an amount.
C26_ErrorFreeRowIsComplete ==
    has_model =>
        \A i \in 1..Len(transactions) :
            transactions[i].errors = <<>> => HasRequiredFields(transactions[i])

\* An accepted edit has emptied the error list of a row that the load had staged with
\* errors, and the row has the four fields.
C26_Witness ==
    /\ has_model
    /\ Accepted
    /\ last_edit.before.errors # <<>>
    /\ transactions[last_edit.row].errors = <<>>
    /\ HasRequiredFields(transactions[last_edit.row])

\* The rows were staged by a load in which an account was picked in the account
\* dialog, and nothing was edited or committed since.
LoadedWithPickedAccount ==
    /\ has_model
    /\ dialog = NoDialog
    /\ "account_name" \notin DOMAIN column_mappings
    /\ TruthyText(account_name_override)
    /\ last_edit = NoCall
    /\ last_commit = NoCall

\* C27 as stated: right after a load with a picked account every row has the picked
\* account name, and a row carries an account-name error only if its account name is
\* blank.
C27_PickedAccountLeavesNoAccountError ==
    LoadedWithPickedAccount =>
        \A i \in 1..Len(transactions) :
            /\ transactions[i].account_name = account_name_override
            /\ (\E e \in ErrorsOf(transactions[i]) : IsAccountError(e))
                  => Strip(transactions[i].account_name) = <<>>

\* C28 as stated: a staged row of a load without an amount column that is a BUY or
\* a SELL with a quantity and a price has the amount quantity x price plus the fees
\* (BUY) or minus the fees (SELL), after every sequence of accepted edits of
\* quantity, price, fees and transaction_type.
C28_ComputedAmountFollowsEdits ==
    (has_model /\ "amount" \notin DOMAIN column_mappings)
        => \A i \in 1..Len(transactions) :
              TradeAmount(transactions[i]) # NoneDec
                 => transactions[i].amount = TradeAmount(transactions[i])

\* C29 as stated: every OPTION_EXPIRATION transaction that a commit request wrote
\* has price 0 and amount 0.
C29_WrittenExpirationIsZero ==
    (last_commit # NoCall /\ last_commit.outcome = "saved")
        => \A k \in 1..Len(CommittedRows) :
              CommittedRows[k].transaction_type = "option_expiration"
                 => CommittedRows[k].price = Dec(0) /\ CommittedRows[k].amount = Dec(0)

\* C30 as stated: an edit of a row, accepted or refused, leaves every other staged
\* row as it was, values and error list.
C30_EditTouchesOneRow ==
    [][(\E row \in 1..Len(transactions), edit \in TradeEdits :
           SetData(row, edit.column, edit.value) /\ last_edit'.row = row)
       => \A i \in 1..Len(transactions) :
             i # last_edit'.row => transactions'[i] = transactions[i]]_vars

\* C30, amended: an edit of a row leaves every other staged row as it was, except
\* that an accepted edit after which no staged row has an error sets the price and
\* the amount of every other OPTION_EXPIRATION row to 0.
C30_EditTouchesOneRowAndExpirations ==
    [][(\E row \in 1..Len(transactions), edit \in TradeEdits :
           SetData(row, edit.column, edit.value) /\ last_edit'.row = row)
       => \A i \in 1..Len(transactions) :
             i # last_edit'.row
             => transactions'[i] =
                   IF /\ last_edit'.ret
                      /\ ~hasErrors(transactions')
                      /\ transactions[i].transaction_type = "option_expiration"
                   THEN [transactions[i] EXCEPT !.price = Dec(0), !.amount = Dec(0)]
                   ELSE transactions[i]]_vars

\* The first edit after the load was accepted on row 1 and left no error, and the
\* expired option of row 2, loaded with price 5, has price 0 and amount 0.
C30_Witness ==
    /\ has_model
    /\ n_steps = 1
    /\ Accepted
    /\ last_edit.row = 1
    /\ ~hasErrors(transactions)
    /\ transactions[2].transaction_type = "option_expiration"
    /\ transactions[2].price = Dec(0)
    /\ transactions[2].amount = Dec(0)
=============================================================================
